---------------------------- MODULE Spec2Model ----------------------------
(***************************************************************************)
(* A model of the CPL-to-QUAD compiler (package cpq): the scanner, the     *)
(* recursive-descent parser, the code generator, the label-removal pass    *)
(* and the command-line driver.                                            *)
(*                                                                         *)
(* Text is modelled at the level of characters: a Go string is a sequence  *)
(* of one-character strings, so that strings.ReplaceAll, strings.Split and *)
(* strings.HasSuffix act on substrings exactly as they do in the code.     *)
(***************************************************************************)
EXTENDS Integers, Sequences, FiniteSets, TLC

VARIABLES
    mode,         \* which part of the program the behaviour exercises
    pc,           \* position of the driver / of the exercised operation
    program,      \* the AST handed to Codegen (*Program)
    buildOps,     \* number of construction steps spent on program
    quad,         \* text returned by Codegen
    genErrors,    \* c.Errors returned by Codegen
    final,        \* text returned by RemoveLabels
    args,         \* os.Args and the state of the input file, for main
    src,          \* the source text given to Parse or to the scanner
    parseErrors,  \* parser.Errors returned by Parse
    outFile,      \* what main wrote to the .qud file, NoFile when nothing
    scanner,      \* the Scanner of a scanning behaviour
    tokens        \* the tokens its calls of Scan returned, in order

genVars == <<program, buildOps, quad, genErrors, final>>
cliVars == <<args, src, parseErrors, outFile>>
scanVars == <<scanner, tokens>>
vars == <<mode, pc, genVars, cliVars, scanVars>>

(***************************************************************************)
(* Bounds of the model.                                                    *)
(***************************************************************************)
MaxBuildOps == 3
MaxCases == 8

(***************************************************************************)
(* Characters and strings.                                                 *)
(***************************************************************************)
NL == "\n"
SP == " "

\* Body of the value v: a value computed once and used under a name.
With(v, Body(_)) == Body(v)

DigitChars == <<"0", "1", "2", "3", "4", "5", "6", "7", "8", "9">>

\* strconv.Itoa / fmt "%d" of a non-negative number.
RECURSIVE ItoaNat(_)
ItoaNat(n) ==
    IF n < 10 THEN <<DigitChars[n + 1]>>
    ELSE ItoaNat(n \div 10) \o <<DigitChars[(n % 10) + 1]>>

Itoa(n) == IF n < 0 THEN <<"-">> \o ItoaNat(0 - n) ELSE ItoaNat(n)

\* strings.HasSuffix(s, suffix)
HasSuffix(s, suffix) ==
    /\ Len(s) >= Len(suffix)
    /\ SubSeq(s, Len(s) - Len(suffix) + 1, Len(s)) = suffix

\* Whether old occurs in s at index i (1-based).
MatchAt(s, old, i) ==
    /\ i + Len(old) - 1 <= Len(s)
    /\ \A k \in 1..Len(old) : s[i + k - 1] = old[k]

\* The indices 1..n in increasing order.
Indices(n) == [j \in 1..n |-> j]

\* The indices where old occurs in s, in increasing order.
Matches(s, old) ==
    SelectSeq(Indices(Len(s) - Len(old) + 1), LAMBDA j : MatchAt(s, old, j))

\* The occurrences a left-to-right search replaces: each one starts at or
\* after the end of the one before it.
RECURSIVE NonOverlapping(_, _, _, _)
NonOverlapping(ms, width, k, free) ==
    IF k > Len(ms) THEN <<>>
    ELSE IF ms[k] >= free
         THEN <<ms[k]>> \o NonOverlapping(ms, width, k + 1, ms[k] + width)
         ELSE NonOverlapping(ms, width, k + 1, free)

Replaced(s, old) ==
    With(Matches(s, old), LAMBDA ms :
        IF \E k \in 1..(Len(ms) - 1) : ms[k + 1] - ms[k] < Len(old)
        THEN NonOverlapping(ms, Len(old), 1, 1)
        ELSE ms)

\* The text between replaced occurrence t-1 and occurrence t, followed by new,
\* for t in lo..hi, concatenated.
RECURSIVE ReplacedPieces(_, _, _, _, _, _)
ReplacedPieces(s, width, new, ms, lo, hi) ==
    IF lo > hi THEN <<>>
    ELSE IF lo = hi THEN
        SubSeq(s, IF lo = 1 THEN 1 ELSE ms[lo - 1] + width, ms[lo] - 1) \o new
    ELSE ReplacedPieces(s, width, new, ms, lo, (lo + hi) \div 2)
             \o ReplacedPieces(s, width, new, ms, (lo + hi) \div 2 + 1, hi)

\* strings.ReplaceAll(s, old, new): the non-overlapping occurrences of old,
\* leftmost first, each replaced by new.  An empty old matches before every
\* character and at the end.
ReplaceAll(s, old, new) ==
    With(Replaced(s, old), LAMBDA ms :
        IF ms = <<>> THEN s
        ELSE ReplacedPieces(s, Len(old), new, ms, 1, Len(ms))
                 \o SubSeq(s, ms[Len(ms)] + Len(old), Len(s)))

\* strings.Split(s, sep) for a one-character sep: the pieces between the
\* separators; a text of n separators has n + 1 pieces (the last one empty
\* when s ends with one).
SplitOn(s, sep) ==
    With(Matches(s, <<sep>>), LAMBDA at :
        [k \in 1..(Len(at) + 1) |->
            SubSeq(s, IF k = 1 THEN 1 ELSE at[k - 1] + 1,
                      IF k > Len(at) THEN Len(s) ELSE at[k] - 1)])

\* strings.Split(s, "\n")
Split(s) == SplitOn(s, NL)

(***************************************************************************)
(* The data model (AST) shared by the parser and the code generator.       *)
(***************************************************************************)
Unknown == "Unknown"
Float == "Float"
Integer == "Integer"

Add == "Add"
Subtract == "Subtract"
Multiply == "Multiply"
Divide == "Divide"
EqualTo == "EqualTo"
NotEqualTo == "NotEqualTo"
GreaterThan == "GreaterThan"
LessThan == "LessThan"
GreaterThanOrEqualTo == "GreaterThanOrEqualTo"
LessThenOrEqualTo == "LessThenOrEqualTo"

Position(line, column) == [Line |-> line, Column |-> column]

\* The zero Position, Position{}.
NoPosition == Position(0, 0)

\* A nil Statement, Expression or BooleanExpression.
NilNode == [kind |-> "nil"]

Program(declarations, block, pos) ==
    [Declarations |-> declarations, StatementsBlock |-> block, Position |-> pos]

Declaration(names, type, pos) ==
    [Names |-> names, Type |-> type, Position |-> pos]

AssignmentStatement(variable, value, castType, pos) ==
    [kind |-> "Assignment", Variable |-> variable, Value |-> value,
     CastType |-> castType, Position |-> pos]

InputStatement(variable, pos) ==
    [kind |-> "Input", Variable |-> variable, Position |-> pos]

OutputStatement(value, pos) ==
    [kind |-> "Output", Value |-> value, Position |-> pos]

IfStatement(condition, ifBranch, elseBranch, pos) ==
    [kind |-> "If", Condition |-> condition, IfBranch |-> ifBranch,
     ElseBranch |-> elseBranch, Position |-> pos]

WhileStatement(condition, body, pos) ==
    [kind |-> "While", Condition |-> condition, Body |-> body, Position |-> pos]

SwitchStatement(expression, cases, defaultCase, pos) ==
    [kind |-> "Switch", Expression |-> expression, Cases |-> cases,
     DefaultCase |-> defaultCase, Position |-> pos]

SwitchCase(value, statements, pos) ==
    [Value |-> value, Statements |-> statements, Position |-> pos]

BreakStatement(pos) == [kind |-> "Break", Position |-> pos]

StatementsBlock(statements, pos) ==
    [kind |-> "Block", Statements |-> statements, Position |-> pos]

VariableExpression(variable, pos) ==
    [kind |-> "Variable", Variable |-> variable, Position |-> pos]

IntLiteral(value, pos) == [kind |-> "IntLiteral", Value |-> value, Position |-> pos]

\* The value of a float literal is kept in millionths: "%f" prints six decimals.
FloatLiteral(millionths, pos) ==
    [kind |-> "FloatLiteral", Value |-> millionths, Position |-> pos]

ArithmeticExpression(lhs, operator, rhs, pos) ==
    [kind |-> "Arithmetic", LHS |-> lhs, Operator |-> operator, RHS |-> rhs,
     Position |-> pos]

OrBooleanExpression(lhs, rhs, pos) ==
    [kind |-> "Or", LHS |-> lhs, RHS |-> rhs, Position |-> pos]

AndBooleanExpression(lhs, rhs, pos) ==
    [kind |-> "And", LHS |-> lhs, RHS |-> rhs, Position |-> pos]

NotBooleanExpression(value, pos) ==
    [kind |-> "Not", Value |-> value, Position |-> pos]

CompareBooleanExpression(lhs, operator, rhs, pos) ==
    [kind |-> "Compare", LHS |-> lhs, Operator |-> operator, RHS |-> rhs,
     Position |-> pos]

(***************************************************************************)
(* The scanner.  Token types are the names of the TokenType constants, as  *)
(* strings.  A Scanner value s holds the fields of Scanner; its Reader is  *)
(* the text src and the number off of characters already taken from it.    *)
(***************************************************************************)
\* rune(0), which read returns at the end of the text.
eof == "NUL"

CR == "\r"
TAB == "\t"

MaxIdentifierLength == 9

\* len(s.buffer)
BufferLen == 1024

LowerLetters ==
    {"a", "b", "c", "d", "e", "f", "g", "h", "i", "j", "k", "l", "m",
     "n", "o", "p", "q", "r", "s", "t", "u", "v", "w", "x", "y", "z"}

UpperLetters ==
    {"A", "B", "C", "D", "E", "F", "G", "H", "I", "J", "K", "L", "M",
     "N", "O", "P", "Q", "R", "S", "T", "U", "V", "W", "X", "Y", "Z"}

isWhitespace(ch) == ch = SP \/ ch = TAB \/ ch = NL

isLetter(ch) == ch \in LowerLetters \/ ch \in UpperLetters

isDigit(ch) == ch \in {"0", "1", "2", "3", "4", "5", "6", "7", "8", "9"}

Token(type, lexeme, pos) ==
    [TokenType |-> type, Lexeme |-> lexeme, Position |-> pos]

\* The zero value of a buffer entry.
ZeroEntry == [ch |-> eof, position |-> NoPosition]

\* The repository holds the scanner twice: the copy next to the parser in
\* parser.go differs from the other one in the test that ends an identifier.
\* copy says which of the two a Scanner value is.
ScannerCopies == {"scanner", "parser.go"}

NewScanner(text, copy) ==
    [src |-> text, off |-> 0, position |-> NoPosition, eof |-> FALSE,
     bufferIndex |-> 0, bufferSize |-> 0, buffer |-> <<>>, copy |-> copy]

\* s.buffer[i]: the entries never written hold the zero value.
BufferAt(s, i) == IF i \in DOMAIN s.buffer THEN s.buffer[i] ELSE ZeroEntry

\* s.Reader.ReadRune()
ReadRune(s) ==
    IF s.off >= Len(s.src) THEN [err |-> TRUE, ch |-> eof, s |-> s]
    ELSE [err |-> FALSE, ch |-> s.src[s.off + 1], s |-> [s EXCEPT !.off = @ + 1]]

\* curr returns the last read character and position.
curr(s) ==
    BufferAt(s, (s.bufferIndex - s.bufferSize + BufferLen) % BufferLen)

\* After a carriage return, read takes a line feed that follows it along.
TakeLineFeed(s) ==
    With(ReadRune(s), LAMBDA r2 : IF ~r2.err /\ r2.ch = NL THEN r2.s ELSE s)

\* The second half of read: ch and the position are saved to the buffer, the
\* position is advanced (the end of the text counts once) and the end of the
\* text is marked.
Store(s, ch) ==
    With((s.bufferIndex + 1) % BufferLen, LAMBDA index :
        [s EXCEPT
            !.bufferIndex = index,
            !.buffer = [i \in DOMAIN @ \cup {index} |->
                           IF i = index
                           THEN [ch |-> ch, position |-> s.position]
                           ELSE @[i]],
            !.position = IF ch = NL THEN Position(@.Line + 1, 0)
                         ELSE IF ~s.eof THEN Position(@.Line, @.Column + 1)
                         ELSE @,
            !.eof = IF ch = eof THEN TRUE ELSE @])

\* read: the next character, from the buffer when characters were pushed
\* back, from the reader otherwise; the result is the scanner afterwards, and
\* curr of it is what read returns.
read(s) ==
    IF s.bufferSize > 0 THEN [s EXCEPT !.bufferSize = @ - 1]
    ELSE With(ReadRune(s), LAMBDA r :
             IF r.err THEN Store(r.s, eof)
             ELSE IF r.ch = CR THEN Store(TakeLineFeed(r.s), NL)
             ELSE Store(r.s, r.ch))

Unscan(s) == [s EXCEPT !.bufferSize = @ + 1]

\* scanWhitespace consumes all contiguous whitespace.
RECURSIVE scanWhitespace(_)
scanWhitespace(s) ==
    With(read(s), LAMBDA s1 :
        IF curr(s1).ch = eof THEN s1
        ELSE IF ~isWhitespace(curr(s1).ch) THEN Unscan(s1)
        ELSE scanWhitespace(s1))

\* skipToEnd skips characters until after the next "*/"; err at the end of
\* the text.  star says that the character before was a '*'.
RECURSIVE skipToEndFrom(_, _)
\* A faulty skipToEnd: of a run of stars only every other one counts as the
\* star before a closing slash.
skipToEndFromSingleStar(s, star) ==
    With(read(s), LAMBDA s1 :
        IF star /\ curr(s1).ch = "/" THEN [err |-> FALSE, s |-> s1]
        ELSE IF curr(s1).ch = eof THEN [err |-> TRUE, s |-> s1]
        ELSE skipToEndFrom(s1, curr(s1).ch = "*" /\ ~star))

skipToEndFrom(s, star) ==
    With(read(s), LAMBDA s1 :
        IF star /\ curr(s1).ch = "/" THEN [err |-> FALSE, s |-> s1]
        ELSE IF curr(s1).ch = eof THEN [err |-> TRUE, s |-> s1]
        ELSE skipToEndFrom(s1, curr(s1).ch = "*"))

skipToEnd(s) == skipToEndFrom(s, FALSE)

\* The keywords, matched on the whole lexeme.
Keywords ==
    {[Lexeme |-> <<"b", "r", "e", "a", "k">>,
       TokenType |-> "BREAK"],
      [Lexeme |-> <<"c", "a", "s", "e">>,
       TokenType |-> "CASE"],
      [Lexeme |-> <<"d", "e", "f", "a", "u", "l", "t">>,
       TokenType |-> "DEFAULT"],
      [Lexeme |-> <<"e", "l", "s", "e">>,
       TokenType |-> "ELSE"],
      [Lexeme |-> <<"f", "l", "o", "a", "t">>,
       TokenType |-> "FLOAT"],
      [Lexeme |-> <<"i", "f">>,
       TokenType |-> "IF"],
      [Lexeme |-> <<"i", "n", "p", "u", "t">>,
       TokenType |-> "INPUT"],
      [Lexeme |-> <<"i", "n", "t">>,
       TokenType |-> "INT"],
      [Lexeme |-> <<"o", "u", "t", "p", "u", "t">>,
       TokenType |-> "OUTPUT"],
      [Lexeme |-> <<"s", "w", "i", "t", "c", "h">>,
       TokenType |-> "SWITCH"],
      [Lexeme |-> <<"w", "h", "i", "l", "e">>,
       TokenType |-> "WHILE"],
      [Lexeme |-> <<"s", "t", "a", "t", "i", "c", "_", "c", "a", "s", "t">>,
       TokenType |-> "STATICCAST"]}

\* A faulty IdentifierType: only the length of the lexeme is looked at.
IdentifierTypeByLengthOnly(lexeme) ==
    IF \E k \in Keywords : k.Lexeme = lexeme
    THEN (CHOOSE k \in Keywords : k.Lexeme = lexeme).TokenType
    ELSE IF Len(lexeme) <= MaxIdentifierLength THEN "ID" ELSE "ILLEGAL"

\* The token type of the lexeme scanIdentifier collected: a keyword's type
\* when it is a keyword, else ID when its length is at most
\* MaxIdentifierLength and it holds no underscore, else ILLEGAL.
IdentifierType(lexeme) ==
    IF \E k \in Keywords : k.Lexeme = lexeme
    THEN (CHOOSE k \in Keywords : k.Lexeme = lexeme).TokenType
    ELSE IF Len(lexeme) <= MaxIdentifierLength
            /\ \A i \in 1..Len(lexeme) : lexeme[i] # "_"
         THEN "ID"
         ELSE "ILLEGAL"

\* The test that ends the loop of scanIdentifier, in either copy.
EndsIdentifier(copy, ch) ==
    IF copy = "parser.go"
    THEN ~isLetter(ch) /\ isDigit(ch) /\ ch # "_"
    ELSE ~isLetter(ch) /\ ~isDigit(ch) /\ ch # "_"

\* The loop of scanIdentifier: s has just read a character; every following
\* letter, digit or underscore is added to buf.
RECURSIVE scanIdentifierRest(_, _)
scanIdentifierRest(s, buf) ==
    IF curr(s).ch = eof THEN [s |-> s, buf |-> buf]
    ELSE IF EndsIdentifier(s.copy, curr(s).ch)
    THEN [s |-> Unscan(s), buf |-> buf]
    ELSE scanIdentifierRest(read(s), Append(buf, curr(s).ch))

\* The token of the identifier that starts at pos and is spelled rest.buf.
IdentifierToken(rest, pos) ==
    [s |-> rest.s, tok |-> Token(IdentifierType(rest.buf), rest.buf, pos)]

\* scanIdentifier once its first character is read.
scanIdentifierAt(s) ==
    IdentifierToken(scanIdentifierRest(read(s), <<curr(s).ch>>), curr(s).position)

scanIdentifier(s) == scanIdentifierAt(read(s))

\* The loop of scanNum: s has just read a character.
RECURSIVE scanNumRest(_, _)
scanNumRest(s, buf) ==
    IF ~isDigit(curr(s).ch) /\ curr(s).ch # "."
    THEN [s |-> Unscan(s), buf |-> buf]
    ELSE scanNumRest(read(s), Append(buf, curr(s).ch))

scanNum(s) ==
    With(read(s), LAMBDA s1 :
    With(scanNumRest(s1, <<>>), LAMBDA rest :
        [s |-> rest.s, tok |-> Token("NUM", rest.buf, curr(s1).position)]))

\* The loop of Scan that skips comments and whitespace; s has just read ch at
\* pos.  failed when a comment is not closed.
RECURSIVE skipBlanks(_, _, _)
skipBlanks(s, ch, pos) ==
    IF ch = "/" THEN
        With(read(s), LAMBDA s1 :
            IF curr(s1).ch # "*"
            THEN [s |-> Unscan(s1), ch |-> ch, pos |-> pos, failed |-> FALSE]
            ELSE With(skipToEnd(s1), LAMBDA k :
                 IF k.err
                 THEN [s |-> k.s, ch |-> ch, pos |-> pos, failed |-> TRUE]
                 ELSE With(read(k.s), LAMBDA s2 :
                      skipBlanks(s2, curr(s2).ch, curr(s2).position))))
    ELSE IF isWhitespace(ch) THEN
        With(read(scanWhitespace(s)), LAMBDA s2 :
            skipBlanks(s2, curr(s2).ch, curr(s2).position))
    ELSE [s |-> s, ch |-> ch, pos |-> pos, failed |-> FALSE]

\* A faulty scanPair: the character read after ch is not pushed back when it
\* does not complete the token.
scanPairDroppingLookahead(s, ch, pos, second, both, alone) ==
    With(read(s), LAMBDA s1 :
        IF curr(s1).ch = second
        THEN [s |-> s1, tok |-> Token(both, <<ch, second>>, pos)]
        ELSE [s |-> s1, tok |-> Token(alone, <<ch>>, pos)])

\* An operator of one or two characters: ch followed by second is the token
\* both, ch alone is the token alone.
scanPair(s, ch, pos, second, both, alone) ==
    With(read(s), LAMBDA s1 :
        IF curr(s1).ch = second
        THEN [s |-> s1, tok |-> Token(both, <<ch, second>>, pos)]
        ELSE [s |-> Unscan(s1), tok |-> Token(alone, <<ch>>, pos)])

\* The token type of a character that is a token by itself.
SingleType(ch) ==
    CASE ch \in {"+", "-"} -> "ADDOP"
      [] ch \in {"*", "/"} -> "MULOP"
      [] ch = ";" -> "SEMICOLON"
      [] ch = "(" -> "LPAREN"
      [] ch = ")" -> "RPAREN"
      [] ch = "{" -> "LBRACKET"
      [] ch = "}" -> "RBRACKET"
      [] ch = "," -> "COMMA"
      [] ch = ":" -> "COLON"
      [] OTHER -> "ILLEGAL"

\* The second character a two-character token of Scan needs after ch, its
\* type, and the type of ch alone.
Pairs ==
    [c \in {">", "<", "=", "!", "|", "&"} |->
        CASE c \in {">", "<"} -> [second |-> "=", both |-> "RELOP", alone |-> "RELOP"]
          [] c = "=" -> [second |-> "=", both |-> "RELOP", alone |-> "EQUALS"]
          [] c = "!" -> [second |-> "=", both |-> "RELOP", alone |-> "NOT"]
          [] c = "|" -> [second |-> "|", both |-> "OR", alone |-> "ILLEGAL"]
          [] c = "&" -> [second |-> "&", both |-> "AND", alone |-> "ILLEGAL"]]

\* Scan after the comments and the whitespace: k is what skipBlanks returned.
ScanToken(k) ==
    IF k.failed THEN [s |-> k.s, tok |-> Token("ILLEGAL", <<>>, k.pos)]
    ELSE IF isLetter(k.ch) THEN scanIdentifier(Unscan(k.s))
    ELSE IF isDigit(k.ch) THEN scanNum(Unscan(k.s))
    ELSE IF k.ch = eof THEN
        [s |-> k.s, tok |-> Token("EOF", <<"E", "O", "F">>, k.pos)]
    ELSE IF k.ch \in DOMAIN Pairs THEN
        scanPair(k.s, k.ch, k.pos, Pairs[k.ch].second, Pairs[k.ch].both,
                 Pairs[k.ch].alone)
    ELSE [s |-> k.s, tok |-> Token(SingleType(k.ch), <<k.ch>>, k.pos)]

\* Scan returns the next token; the result holds the scanner afterwards too.
Scan(s) ==
    With(read(s), LAMBDA s0 :
        ScanToken(skipBlanks(s0, curr(s0).ch, curr(s0).position)))

(***************************************************************************)
(* The parser.  A Parser value p holds Errors, scanner and lookahead;      *)
(* overflow is set when the recursion of the parsing routines cannot end   *)
(* (the goroutine's stack overflows, which ends the process).  A routine   *)
(* returns the parser afterwards together with what the code returns.      *)
(***************************************************************************)
newError(found, expected, pos) ==
    [Message |-> <<>>, Found |-> found, Expected |-> expected, Pos |-> pos]

\* An addError that appends every error.
addErrorAlways(p, e) == [p EXCEPT !.Errors = Append(@, e)]

\* addError drops an error at a position that already has one.
addError(p, e) ==
    IF \E i \in 1..Len(p.Errors) : p.Errors[i].Pos = e.Pos THEN p
    ELSE [p EXCEPT !.Errors = Append(@, e)]

NewParser(s) ==
    With(Scan(s), LAMBDA r :
        [Errors |-> <<>>, scanner |-> r.s, lookahead |-> r.tok,
         overflow |-> FALSE])

\* p.lookahead = p.scanner.Scan()
skip(p) ==
    With(Scan(p.scanner), LAMBDA r :
        [p EXCEPT !.scanner = r.s, !.lookahead = r.tok])

\* matchToken: the lookahead is taken when its type is one of tokenTypes.
\* On failure the code returns a pointer to p.lookahead itself.
matchToken(p, tokenTypes) ==
    IF p.lookahead.TokenType \in tokenTypes
    THEN [p |-> skip(p), token |-> p.lookahead, ok |-> TRUE]
    ELSE [p |-> p, token |-> p.lookahead, ok |-> FALSE]

match(p, tokenTypes) == matchToken(p, tokenTypes)

\* if token, ok := p.match(...); !ok { p.addError(newError(token.Lexeme,
\* expected, token.Position)) }
expect(p, tokenTypes, expected) ==
    With(match(p, tokenTypes), LAMBDA m :
        IF m.ok THEN m
        ELSE [m EXCEPT !.p = addError(m.p, newError(m.token.Lexeme, expected,
                                                    m.token.Position))])

\* The type a token of ParseType stands for.
TypeOfToken(type) ==
    IF type = "INT" THEN Integer ELSE IF type = "FLOAT" THEN Float ELSE Unknown

\* ParseType: on failure token points at p.lookahead, which skip replaces
\* before the error is made from it.
ParseType(p) ==
    With(match(p, {"INT", "FLOAT"}), LAMBDA m :
        IF m.ok THEN [p |-> m.p, type |-> TypeOfToken(m.token.TokenType)]
        ELSE With(skip(m.p), LAMBDA p1 :
                 [p |-> addError(p1, newError(p1.lookahead.Lexeme,
                                              <<"int", "float">>,
                                              p1.lookahead.Position)),
                  type |-> Unknown]))

\* result.Variable: the lexeme of the ID that m matched, else empty.
NameOf(m) == IF m.ok THEN m.token.Lexeme ELSE <<>>

\* names with the lexeme of the ID that m matched, if it matched one.
WithName(names, m) == IF m.ok THEN Append(names, m.token.Lexeme) ELSE names

\* The loop of ParseIDList over ", ID".
RECURSIVE ParseIDListRest(_, _)
ParseIDListRest(p, names) ==
    IF p.lookahead.TokenType # "COMMA" THEN [p |-> p, names |-> names]
    ELSE With(expect(match(p, {"COMMA"}).p, {"ID"}, <<"ID">>), LAMBDA m :
             ParseIDListRest(m.p, WithName(names, m)))

ParseIDList(p) ==
    With(expect(p, {"ID"}, <<"ID">>), LAMBDA m :
        ParseIDListRest(m.p, WithName(<<>>, m)))

ParseDeclaration(p) ==
    With(ParseIDList(p), LAMBDA l :
    With(ParseType(expect(l.p, {"COLON"}, <<":">>).p), LAMBDA t :
        [p |-> expect(t.p, {"SEMICOLON"}, <<";">>).p,
         declaration |-> Declaration(l.names, t.type, p.lookahead.Position)]))

\* The loop of ParseDeclarations: one declaration for each ID in the lookahead.
RECURSIVE ParseDeclarationsFrom(_, _)
ParseDeclarationsFrom(p, declarations) ==
    IF p.lookahead.TokenType # "ID"
    THEN [p |-> p, declarations |-> declarations]
    ELSE With(ParseDeclaration(p), LAMBDA d :
             ParseDeclarationsFrom(d.p, Append(declarations, d.declaration)))

ParseDeclarations(p) == ParseDeclarationsFrom(p, <<>>)

\* The optional static_cast '(' type ')' of ParseAssignmentStatement.
ParseCast(p) ==
    IF p.lookahead.TokenType # "STATICCAST" THEN [p |-> p, type |-> Unknown]
    ELSE With(ParseType(expect(match(p, {"STATICCAST"}).p,
                               {"LPAREN"}, <<"(">>).p), LAMBDA t :
             [p |-> expect(t.p, {"RPAREN"}, <<")">>).p, type |-> t.type])

\* The expression after '=' is not parsed: Value stays nil.
ParseAssignmentStatement(p) ==
    With(expect(p, {"ID"}, <<"ID">>), LAMBDA id :
    With(ParseCast(expect(id.p, {"EQUALS"}, <<"ID">>).p), LAMBDA cast :
        [p |-> expect(cast.p, {"SEMICOLON"}, <<";">>).p,
         node |-> AssignmentStatement(NameOf(id), NilNode,
                                      cast.type, p.lookahead.Position)]))

ParseInputStatement(p) ==
    With(match(p, {"INPUT"}), LAMBDA in :
        IF ~in.ok THEN [p |-> in.p, node |-> NilNode]
        ELSE With(expect(expect(in.p, {"LPAREN"}, <<"(">>).p,
                         {"ID"}, <<"ID">>), LAMBDA id :
                 [p |-> expect(expect(id.p, {"RPAREN"}, <<")">>).p,
                               {"SEMICOLON"}, <<";">>).p,
                  node |-> InputStatement(NameOf(id),
                                          in.p.lookahead.Position)]))

\* The expression between the parentheses is not parsed: Value stays nil.
ParseOutputStatement(p) ==
    With(match(p, {"OUTPUT"}), LAMBDA out :
        IF ~out.ok THEN [p |-> out.p, node |-> NilNode]
        ELSE [p |-> expect(expect(expect(out.p, {"LPAREN"}, <<"(">>).p,
                                  {"RPAREN"}, <<")">>).p,
                           {"SEMICOLON"}, <<";">>).p,
              node |-> OutputStatement(NilNode, out.p.lookahead.Position)])

ParseBreakStatement(p) ==
    With(match(p, {"BREAK"}), LAMBDA b :
        IF ~b.ok THEN [p |-> b.p, node |-> NilNode]
        ELSE [p |-> expect(b.p, {"SEMICOLON"}, <<";">>).p,
              node |-> BreakStatement(p.lookahead.Position)])

\* strconv.ParseInt(lexeme, 10, 64) on the lexeme of a NUM token (digits and
\* dots, starting with a digit): an error, with value 0, when a dot occurs.
RECURSIVE DigitsValue(_)
DigitsValue(digits) ==
    IF digits = <<>> THEN 0
    ELSE 10 * DigitsValue(SubSeq(digits, 1, Len(digits) - 1))
         + (CHOOSE d \in 0..9 : DigitChars[d + 1] = digits[Len(digits)])

ParseInt(lexeme) ==
    IF \A i \in 1..Len(lexeme) : isDigit(lexeme[i])
    THEN [value |-> DigitsValue(lexeme), err |-> FALSE]
    ELSE [value |-> 0, err |-> TRUE]

NotAnInt(lexeme) ==
    [Message |-> lexeme \o <<" ", "i", "s", " ", "n", "o", "t", " ", "a", "n",
                             " ", "i", "n", "t">>,
     Found |-> <<>>, Expected |-> <<>>, Pos |-> NoPosition]

RECURSIVE ParseStatement(_)
RECURSIVE ParseStatementsFrom(_, _)
RECURSIVE ParseSwitchCasesFrom(_, _)
RECURSIVE ParseBooleanExpression(_, _)
RECURSIVE ParseBooleanExpressionRest(_, _, _)
RECURSIVE ParseBooleanTermRest(_, _, _)

\* The end of ParseBooleanFactor on its first path: ')' is expected after
\* the expression e.
CloseNot(e) == IF e.p.overflow THEN e.p ELSE expect(e.p, {"RPAREN"}, <<")">>).p

\* ParseBooleanFactor: every path through it calls ParseBooleanExpression.
ParseBooleanFactor(p, enclosing) ==
    IF p.lookahead.TokenType = "NOT" THEN
        With(expect(match(p, {"NOT"}).p, {"LPAREN"}, <<"(">>), LAMBDA l :
        With(ParseBooleanExpression(l.p, enclosing), LAMBDA e :
            [p |-> IF ~l.ok THEN CloseNot(e) ELSE e.p,
             node |-> NotBooleanExpression(e.node, p.lookahead.Position)]))
    ELSE
        With(ParseBooleanExpression(p, enclosing), LAMBDA e :
            [p |-> e.p,
             node |-> NotBooleanExpression(e.node, p.lookahead.Position)])

ParseBooleanTermRest(p, result, enclosing) ==
    IF p.overflow \/ p.lookahead.TokenType # "AND"
    THEN [p |-> p, node |-> result]
    ELSE With(ParseBooleanFactor(match(p, {"AND"}).p, enclosing), LAMBDA f :
             ParseBooleanTermRest(f.p,
                 AndBooleanExpression(result, f.node, p.lookahead.Position),
                 enclosing))

ParseBooleanTerm(p, enclosing) ==
    With(ParseBooleanFactor(p, enclosing), LAMBDA f :
        ParseBooleanTermRest(f.p, f.node, enclosing))

ParseBooleanExpressionRest(p, result, enclosing) ==
    IF p.overflow \/ p.lookahead.TokenType # "OR"
    THEN [p |-> p, node |-> result]
    ELSE With(ParseBooleanTerm(match(p, {"OR"}).p, enclosing), LAMBDA t :
             ParseBooleanExpressionRest(t.p,
                 OrBooleanExpression(result, t.node, p.lookahead.Position),
                 enclosing))

\* enclosing is the parser as it was when the nearest call of
\* ParseBooleanExpression still running was entered (NilNode when there is
\* none).  A call entered with the very same parser repeats that call without
\* end: the stack grows until the runtime stops the process.
ParseBooleanExpression(p, enclosing) ==
    IF p = enclosing
    THEN [p |-> [p EXCEPT !.overflow = TRUE], node |-> NilNode]
    ELSE With(ParseBooleanTerm(p, p), LAMBDA t :
             ParseBooleanExpressionRest(t.p, t.node, p))

\* The loop of ParseStatements: statements until ParseStatement returns nil.
ParseStatementsFrom(p, statements) ==
    IF p.overflow THEN [p |-> p, statements |-> statements]
    ELSE With(ParseStatement(p), LAMBDA st :
             IF st.node = NilNode \/ st.p.overflow
             THEN [p |-> st.p, statements |-> statements]
             ELSE ParseStatementsFrom(st.p, Append(statements, st.node)))

ParseStatements(p) == ParseStatementsFrom(p, <<>>)

\* The end of ParseStatementsBlock: '}' is matched, and its absence is an
\* error only when there was a '{'.
CloseBlock(p, startBlock) ==
    With(match(p, {"RBRACKET"}), LAMBDA end :
        IF ~end.ok /\ startBlock
        THEN addError(end.p, newError(end.token.Lexeme, <<"}">>,
                                      end.token.Position))
        ELSE end.p)

\* On a missing '{' startBlockToken points at p.lookahead, and Position is
\* read from it when the routine returns.
ParseStatementsBlock(p) ==
    With(expect(p, {"LBRACKET"}, <<"{">>), LAMBDA start :
    With(ParseStatements(start.p), LAMBDA body :
        IF body.p.overflow THEN [p |-> body.p, node |-> NilNode]
        ELSE With(CloseBlock(body.p, start.ok), LAMBDA p1 :
                 [p |-> p1,
                  node |-> StatementsBlock(body.statements,
                               IF start.ok THEN start.token.Position
                               ELSE p1.lookahead.Position)])))

\* The end of ParseIfStatement, after the if branch: else and its statement.
ParseElse(cond, ifBranch, position) ==
    With(expect(ifBranch.p, {"ELSE"}, <<"else">>), LAMBDA else :
        IF ~else.ok
        THEN [p |-> else.p,
              node |-> IfStatement(cond.node, ifBranch.node, NilNode, position)]
        ELSE With(ParseStatement(else.p), LAMBDA elseBranch :
                 [p |-> elseBranch.p,
                  node |-> IfStatement(cond.node, ifBranch.node,
                                       elseBranch.node, position)]))

ParseIfStatement(p) ==
    With(match(p, {"IF"}), LAMBDA if :
        IF ~if.ok THEN [p |-> if.p, node |-> NilNode]
        ELSE
        With(ParseBooleanExpression(expect(if.p, {"LPAREN"}, <<"(">>).p,
                                    NilNode), LAMBDA cond :
            IF cond.p.overflow THEN [p |-> cond.p, node |-> NilNode]
            ELSE
            With(ParseStatement(expect(cond.p, {"RPAREN"}, <<")">>).p),
                 LAMBDA ifBranch :
                IF ifBranch.p.overflow
                THEN [p |-> ifBranch.p, node |-> NilNode]
                ELSE ParseElse(cond, ifBranch, if.p.lookahead.Position))))

ParseWhileStatement(p) ==
    With(match(p, {"WHILE"}), LAMBDA while :
        IF ~while.ok THEN [p |-> while.p, node |-> NilNode]
        ELSE
        With(ParseBooleanExpression(expect(while.p, {"LPAREN"}, <<"(">>).p,
                                    NilNode), LAMBDA cond :
            IF cond.p.overflow THEN [p |-> cond.p, node |-> NilNode]
            ELSE
            With(ParseStatement(expect(cond.p, {"RPAREN"}, <<")">>).p),
                 LAMBDA body :
                [p |-> body.p,
                 node |-> WhileStatement(cond.node, body.node,
                                         while.p.lookahead.Position)])))

\* The NUM of a case: item.Value and the parser afterwards.
ParseCaseValue(p) ==
    With(expect(p, {"NUM"}, <<"NUM">>), LAMBDA num :
        IF ~num.ok THEN [p |-> num.p, value |-> 0]
        ELSE With(ParseInt(num.token.Lexeme), LAMBDA int :
                 [p |-> IF int.err
                        THEN addError(num.p, NotAnInt(num.token.Lexeme))
                        ELSE num.p,
                  value |-> int.value]))

\* The loop of ParseSwitchCases: one case for each CASE in the lookahead.
ParseSwitchCasesFrom(p, cases) ==
    IF p.overflow \/ p.lookahead.TokenType # "CASE"
    THEN [p |-> p, cases |-> cases]
    ELSE
        With(ParseCaseValue(match(p, {"CASE"}).p), LAMBDA num :
        With(ParseStatements(expect(num.p, {"COLON"}, <<":">>).p), LAMBDA body :
            ParseSwitchCasesFrom(body.p,
                Append(cases, SwitchCase(num.value, body.statements,
                                         p.lookahead.Position)))))

ParseSwitchCases(p) == ParseSwitchCasesFrom(p, <<>>)

\* The end of ParseSwitchStatement, after the cases: DEFAULT ':' stmtlist '}'.
ParseDefault(cases, position) ==
    With(ParseStatements(expect(expect(cases.p, {"DEFAULT"}, <<"DEFAULT">>).p,
                                {"COLON"}, <<":">>).p), LAMBDA defaultCase :
        IF defaultCase.p.overflow THEN [p |-> defaultCase.p, node |-> NilNode]
        ELSE [p |-> expect(defaultCase.p, {"RBRACKET"}, <<"}">>).p,
              node |-> SwitchStatement(NilNode, cases.cases,
                                       defaultCase.statements, position)])

\* The expression between the parentheses is not parsed: Expression stays nil.
ParseSwitchStatement(p) ==
    With(match(p, {"SWITCH"}), LAMBDA switch :
        IF ~switch.ok THEN [p |-> switch.p, node |-> NilNode]
        ELSE
        With(ParseSwitchCases(
                 expect(expect(expect(switch.p, {"LPAREN"}, <<"(">>).p,
                               {"RPAREN"}, <<")">>).p,
                        {"LBRACKET"}, <<"{">>).p), LAMBDA cases :
            IF cases.p.overflow THEN [p |-> cases.p, node |-> NilNode]
            ELSE ParseDefault(cases, switch.p.lookahead.Position)))

ParseStatement(p) ==
    LET type == p.lookahead.TokenType IN
    CASE type = "ID" -> ParseAssignmentStatement(p)
      [] type = "INPUT" -> ParseInputStatement(p)
      [] type = "OUTPUT" -> ParseOutputStatement(p)
      [] type = "IF" -> ParseIfStatement(p)
      [] type = "WHILE" -> ParseWhileStatement(p)
      [] type = "SWITCH" -> ParseSwitchStatement(p)
      [] type = "BREAK" -> ParseBreakStatement(p)
      [] type = "LBRACKET" -> ParseStatementsBlock(p)
      [] OTHER -> [p |-> p, node |-> NilNode]

\* The end of ParseProgram: EOF is expected; the error of a missing EOF is
\* put at the position of the program, which is that of the first token.
ExpectEOF(p, position) ==
    With(match(p, {"EOF"}), LAMBDA end :
        IF end.ok THEN end.p
        ELSE addError(end.p, newError(end.token.Lexeme, <<"EOF">>, position)))

ParseProgram(p) ==
    With(ParseDeclarations(p), LAMBDA declarations :
    With(ParseStatementsBlock(declarations.p), LAMBDA block :
        IF block.p.overflow THEN [p |-> block.p, node |-> NilNode]
        ELSE [p |-> ExpectEOF(block.p, p.lookahead.Position),
              node |-> Program(declarations.declarations, block.node,
                               p.lookahead.Position)]))

\* Parse(s), with the copy of the scanner it is built with: the program, the
\* errors, and whether the call ended in a stack overflow instead.
Parse(s, copy) ==
    With(ParseProgram(NewParser(NewScanner(s, copy))), LAMBDA r :
        [program |-> r.node, errors |-> r.p.Errors, overflow |-> r.p.overflow])

(***************************************************************************)
(* The code generator (codeGen.go).  A generator value c holds the fields  *)
(* of CodeGenerator; output is the text written so far (the bufio.Writer   *)
(* has size 1 and writes through to the buffer Codegen returns).           *)
(***************************************************************************)
Mnemonic ==
    [IASN |-> <<"I", "A", "S", "N">>, RASN |-> <<"R", "A", "S", "N">>,
     IINP |-> <<"I", "I", "N", "P">>, RINP |-> <<"R", "I", "N", "P">>,
     IPRT |-> <<"I", "P", "R", "T">>, RPRT |-> <<"R", "P", "R", "T">>,
     JMPZ |-> <<"J", "M", "P", "Z">>, JUMP |-> <<"J", "U", "M", "P">>,
     INQL |-> <<"I", "N", "Q", "L">>, RNQL |-> <<"R", "N", "Q", "L">>,
     IADD |-> <<"I", "A", "D", "D">>, RADD |-> <<"R", "A", "D", "D">>,
     ISUB |-> <<"I", "S", "U", "B">>, RSUB |-> <<"R", "S", "U", "B">>,
     IMLT |-> <<"I", "M", "L", "T">>, RMLT |-> <<"R", "M", "L", "T">>,
     IDIV |-> <<"I", "D", "I", "V">>, RDIV |-> <<"R", "D", "I", "V">>,
     IEQL |-> <<"I", "E", "Q", "L">>, REQL |-> <<"R", "E", "Q", "L">>,
     IGRT |-> <<"I", "G", "R", "T">>, RGRT |-> <<"R", "G", "R", "T">>,
     ILSS |-> <<"I", "L", "S", "S">>, RLSS |-> <<"R", "L", "S", "S">>,
     RTOI |-> <<"R", "T", "O", "I">>, ITOR |-> <<"I", "T", "O", "R">>,
     HALT |-> <<"H", "A", "L", "T">>]

\* Error{Message, Pos}: the message is kept as its format and its argument.
Error(format, arg, pos) == [Message |-> [fmt |-> format, arg |-> arg], Pos |-> pos]

\* The line "op a b c\n" of fmt.Sprintf("OP %s %s %s\n", ...).
Line1(op, a) == op \o <<SP>> \o a \o <<NL>>
Line2(op, a, b) == op \o <<SP>> \o a \o <<SP>> \o b \o <<NL>>
Line3(op, a, b, d) == op \o <<SP>> \o a \o <<SP>> \o b \o <<SP>> \o d \o <<NL>>

\* fmt.Sprintf("%s:\n", label)
LabelLine(label) == label \o <<":", NL>>

NewCodeGenerator ==
    [Errors |-> <<>>, output |-> <<>>, Variables |-> <<>>,
     temporaryIndex |-> 0, labelIndex |-> 0, breakStack |-> <<>>,
     panicked |-> FALSE]

\* c.output.WriteString(s)
WriteString(c, s) == [c EXCEPT !.output = @ \o s]

AppendError(c, e) == [c EXCEPT !.Errors = Append(@, e)]

\* c.Variables is a map from names to types; exists and lookup.
Exists(c, name) == name \in DOMAIN c.Variables

TypeOf(c, name) == IF Exists(c, name) THEN c.Variables[name] ELSE Unknown

getNewTemporary(c) ==
    [c |-> [c EXCEPT !.temporaryIndex = @ + 1],
     name |-> <<"_", "t">> \o Itoa(c.temporaryIndex + 1)]

\* A generator with one counter for both kinds of name.
getNewLabelSharedCounter(c) ==
    [c |-> [c EXCEPT !.temporaryIndex = @ + 1, !.labelIndex = @ + 1],
     name |-> <<"@">> \o Itoa(c.temporaryIndex + 1)]

getNewLabel(c) ==
    [c |-> [c EXCEPT !.labelIndex = @ + 1],
     name |-> <<"@">> \o Itoa(c.labelIndex + 1)]

\* *Expression{Code, Type}; NilExpression is the nil pointer.
Expression(code, type) == [isNil |-> FALSE, Code |-> code, Type |-> type]

NilExpression == [isNil |-> TRUE, Code |-> <<>>, Type |-> Unknown]

calculateExpressionType(t1, t2) ==
    IF t1 = Float \/ t2 = Float THEN Float ELSE Integer

codegenCastExpression(c, exp, targetType) ==
    IF exp.Type = targetType THEN [c |-> c, exp |-> exp]
    ELSE With(getNewTemporary(c), LAMBDA t :
             [c |-> IF targetType = Integer THEN
                        WriteString(t.c, Line2(Mnemonic.RTOI, t.name, exp.Code))
                    ELSE IF targetType = Float THEN
                        WriteString(t.c, Line2(Mnemonic.ITOR, t.name, exp.Code))
                    ELSE \* panic("Invalid type!")
                        [t.c EXCEPT !.panicked = TRUE],
              exp |-> Expression(t.name, targetType)])

\* v as six digits, with leading zeros.
SixDigits(v) == [i \in 1..(6 - Len(Itoa(v))) |-> "0"] \o Itoa(v)

\* fmt.Sprintf("%f", v) for a non-negative value kept in millionths.
FormatFloat(v) == Itoa(v \div 1000000) \o <<".">> \o SixDigits(v % 1000000)

\* The opcode of an arithmetic or comparison operator at a type; <<>> when the
\* switch over the operator and the type writes nothing.
Opcode(operator, type) ==
    CASE operator = Add /\ type = Integer -> Mnemonic.IADD
      [] operator = Add /\ type = Float -> Mnemonic.RADD
      [] operator = Subtract /\ type = Integer -> Mnemonic.ISUB
      [] operator = Subtract /\ type = Float -> Mnemonic.RSUB
      [] operator = Multiply /\ type = Integer -> Mnemonic.IMLT
      [] operator = Multiply /\ type = Float -> Mnemonic.RMLT
      [] operator = Divide /\ type = Integer -> Mnemonic.IDIV
      [] operator = Divide /\ type = Float -> Mnemonic.RDIV
      [] operator = EqualTo /\ type = Integer -> Mnemonic.IEQL
      [] operator = EqualTo /\ type = Float -> Mnemonic.REQL
      [] operator = NotEqualTo /\ type = Integer -> Mnemonic.INQL
      [] operator = NotEqualTo /\ type = Float -> Mnemonic.RNQL
      [] operator = GreaterThan /\ type = Integer -> Mnemonic.IGRT
      [] operator = GreaterThan /\ type = Float -> Mnemonic.RGRT
      [] operator = LessThan /\ type = Integer -> Mnemonic.ILSS
      [] operator = LessThan /\ type = Float -> Mnemonic.RLSS
      [] OTHER -> <<>>

IsArithmetic(operator) == operator \in {Add, Subtract, Multiply, Divide}

CodegenVariableExpression(c, node) ==
    IF ~Exists(c, node.Variable) THEN
        [c |-> AppendError(c, Error("undefined variable %s", node.Variable,
                                    node.Position)),
         exp |-> NilExpression]
    ELSE [c |-> c, exp |-> Expression(node.Variable, c.Variables[node.Variable])]

CodegenIntLiteral(c, node) ==
    [c |-> c, exp |-> Expression(Itoa(node.Value), Integer)]

CodegenFloatLiteral(c, node) ==
    [c |-> c, exp |-> Expression(FormatFloat(node.Value), Float)]

\* A faulty CastBoth: the right operand is never converted.
CastBothLeftOnly(c, lhs, rhs, type) ==
    IF type # Float THEN [c |-> c, lhs |-> lhs, rhs |-> rhs]
    ELSE With(codegenCastExpression(c, lhs, Float), LAMBDA l :
             [c |-> l.c, lhs |-> l.exp, rhs |-> rhs])

\* if type == Float { lhs = c.codegenCastExpression(lhs, Float); rhs = ... }
CastBoth(c, lhs, rhs, type) ==
    IF type # Float THEN [c |-> c, lhs |-> lhs, rhs |-> rhs]
    ELSE With(codegenCastExpression(c, lhs, Float), LAMBDA l :
         With(codegenCastExpression(l.c, rhs, Float), LAMBDA r :
             [c |-> r.c, lhs |-> l.exp, rhs |-> r.exp]))

\* The line of a binary operation, when the switch over the operator and the
\* type writes one.
WriteOperation(c, op, result, lhs, rhs) ==
    IF op = <<>> THEN c ELSE WriteString(c, Line3(op, result, lhs.Code, rhs.Code))

RECURSIVE CodegenExpression(_, _)
CodegenArithmeticExpression(c, node) ==
    With(CodegenExpression(c, node.LHS), LAMBDA l :
    With(CodegenExpression(l.c, node.RHS), LAMBDA r :
        IF l.exp.isNil \/ r.exp.isNil THEN [c |-> r.c, exp |-> NilExpression]
        ELSE
        With(getNewTemporary(r.c), LAMBDA t :
        With(calculateExpressionType(l.exp.Type, r.exp.Type), LAMBDA type :
        With(CastBoth(t.c, l.exp, r.exp, type), LAMBDA k :
            [c |-> WriteOperation(k.c,
                       IF IsArithmetic(node.Operator)
                       THEN Opcode(node.Operator, type) ELSE <<>>,
                       t.name, k.lhs, k.rhs),
             exp |-> Expression(t.name, type)])))))

CodegenExpression(c, node) ==
    CASE node.kind = "Arithmetic" -> CodegenArithmeticExpression(c, node)
      [] node.kind = "Variable" -> CodegenVariableExpression(c, node)
      [] node.kind = "IntLiteral" -> CodegenIntLiteral(c, node)
      [] node.kind = "FloatLiteral" -> CodegenFloatLiteral(c, node)
      [] OTHER -> [c |-> c, exp |-> NilExpression]


RECURSIVE CodegenBooleanExpression(_, _)
\* A faulty Or: the sum is returned as it is.
CodegenOrBooleanExpressionSum(c, node) ==
    With(CodegenBooleanExpression(c, node.LHS), LAMBDA l :
    With(CodegenBooleanExpression(l.c, node.RHS), LAMBDA r :
        IF l.name = <<>> \/ r.name = <<>> THEN [c |-> r.c, name |-> <<>>]
        ELSE With(getNewTemporary(r.c), LAMBDA t :
             [c |-> WriteString(t.c,
                        Line3(Mnemonic.IADD, t.name, l.name, r.name)),
              name |-> t.name])))

CodegenOrBooleanExpression(c, node) ==
    With(CodegenBooleanExpression(c, node.LHS), LAMBDA l :
    With(CodegenBooleanExpression(l.c, node.RHS), LAMBDA r :
        IF l.name = <<>> \/ r.name = <<>> THEN [c |-> r.c, name |-> <<>>]
        ELSE With(getNewTemporary(r.c), LAMBDA t :
             [c |-> WriteString(
                        WriteString(t.c,
                            Line3(Mnemonic.IADD, t.name, l.name, r.name)),
                        Line3(Mnemonic.IGRT, t.name, t.name, <<"0">>)),
              name |-> t.name])))

CodegenAndBooleanExpression(c, node) ==
    With(CodegenBooleanExpression(c, node.LHS), LAMBDA l :
    With(CodegenBooleanExpression(l.c, node.RHS), LAMBDA r :
        IF l.name = <<>> \/ r.name = <<>> THEN [c |-> r.c, name |-> <<>>]
        ELSE With(getNewTemporary(r.c), LAMBDA t :
             [c |-> WriteString(t.c,
                        Line3(Mnemonic.IMLT, t.name, l.name, r.name)),
              name |-> t.name])))

CodegenNotBooleanExpression(c, node) ==
    With(CodegenBooleanExpression(c, node.Value), LAMBDA v :
        IF v.name = <<>> THEN [c |-> v.c, name |-> <<>>]
        ELSE With(getNewTemporary(v.c), LAMBDA t :
             [c |-> WriteString(t.c,
                        Line3(Mnemonic.ISUB, t.name, <<"1">>, v.name)),
              name |-> t.name]))

\* A faulty rewriting: != in place of ==.
OrEqualWithNotEqual(node, operator) ==
    OrBooleanExpression(
        CompareBooleanExpression(node.LHS, NotEqualTo, node.RHS, NoPosition),
        CompareBooleanExpression(node.LHS, operator, node.RHS, NoPosition),
        NoPosition)

\* x >= y and x <= y are generated as x == y || x > y and x == y || x < y.
OrEqual(node, operator) ==
    OrBooleanExpression(
        CompareBooleanExpression(node.LHS, EqualTo, node.RHS, NoPosition),
        CompareBooleanExpression(node.LHS, operator, node.RHS, NoPosition),
        NoPosition)

CodegenCompareBooleanExpression(c, node) ==
    IF node.Operator \in {GreaterThanOrEqualTo, LessThenOrEqualTo} THEN
        CodegenOrBooleanExpression(c,
            OrEqual(node, IF node.Operator = GreaterThanOrEqualTo
                          THEN GreaterThan ELSE LessThan))
    ELSE
        With(CodegenExpression(c, node.LHS), LAMBDA l :
        With(CodegenExpression(l.c, node.RHS), LAMBDA r :
            IF l.exp.isNil \/ r.exp.isNil THEN [c |-> r.c, name |-> <<>>]
            ELSE
            With(calculateExpressionType(l.exp.Type, r.exp.Type),
                 LAMBDA compareType :
            With(CastBoth(r.c, l.exp, r.exp, compareType), LAMBDA k :
            With(getNewTemporary(k.c), LAMBDA t :
                [c |-> WriteOperation(t.c,
                           IF IsArithmetic(node.Operator) THEN <<>>
                           ELSE Opcode(node.Operator, compareType),
                           t.name, k.lhs, k.rhs),
                 name |-> t.name])))))

CodegenBooleanExpression(c, node) ==
    CASE node.kind = "Or" -> CodegenOrBooleanExpression(c, node)
      [] node.kind = "And" -> CodegenAndBooleanExpression(c, node)
      [] node.kind = "Not" -> CodegenNotBooleanExpression(c, node)
      [] node.kind = "Compare" -> CodegenCompareBooleanExpression(c, node)
      [] OTHER -> [c |-> c, name |-> <<>>]

\* A faulty cast of the assigned value: a CastType of Unknown is cast to.
AssignCastAlways(e, castType) ==
    IF castType # e.exp.Type
    THEN codegenCastExpression(e.c, e.exp, castType)
    ELSE e

\* if node.CastType != Unknown && node.CastType != value.Type { cast }
AssignCast(e, castType) ==
    IF castType # Unknown /\ castType # e.exp.Type
    THEN codegenCastExpression(e.c, e.exp, castType)
    ELSE e

\* An integer value assigned to a float variable is converted first.
Widen(cast, varType) ==
    IF varType = Float /\ cast.exp.Type = Integer
    THEN codegenCastExpression(cast.c, cast.exp, Float)
    ELSE cast

WriteAssign(wide, varType, variable) ==
    IF varType = Integer THEN
        WriteString(wide.c, Line2(Mnemonic.IASN, variable, wide.exp.Code))
    ELSE IF varType = Float THEN
        WriteString(wide.c, Line2(Mnemonic.RASN, variable, wide.exp.Code))
    ELSE wide.c

AssignChecked(cast, varType, node) ==
    IF varType = Integer /\ cast.exp.Type = Float THEN
        AppendError(cast.c,
            Error("cannot assign float value to int variable %s",
                  node.Variable, node.Position))
    ELSE WriteAssign(Widen(cast, varType), varType, node.Variable)

AssignValue(e, node) ==
    IF ~Exists(e.c, node.Variable) THEN
        AppendError(e.c, Error("undefined variable %s", node.Variable, node.Position))
    ELSE IF e.exp.isNil THEN e.c
    ELSE AssignChecked(AssignCast(e, node.CastType),
                       e.c.Variables[node.Variable], node)

CodegenAssignmentStatement(c, node) ==
    AssignValue(CodegenExpression(c, node.Value), node)

CodegenInputStatement(c, node) ==
    IF ~Exists(c, node.Variable) THEN
        AppendError(c, Error("undefined variable %s", node.Variable, node.Position))
    ELSE IF c.Variables[node.Variable] = Integer THEN
        WriteString(c, Line1(Mnemonic.IINP, node.Variable))
    ELSE IF c.Variables[node.Variable] = Float THEN
        WriteString(c, Line1(Mnemonic.RINP, node.Variable))
    ELSE c

WriteOutput(e) ==
    IF e.exp.isNil THEN e.c
    ELSE IF e.exp.Type = Integer THEN
        WriteString(e.c, Line1(Mnemonic.IPRT, e.exp.Code))
    ELSE IF e.exp.Type = Float THEN
        WriteString(e.c, Line1(Mnemonic.RPRT, e.exp.Code))
    ELSE e.c

CodegenOutputStatement(c, node) == WriteOutput(CodegenExpression(c, node.Value))

\* A faulty CodegenBreakStatement: it reports the break outside a loop and
\* goes on to write the jump.
CodegenBreakStatementJumping(c, node) ==
    IF Len(c.breakStack) = 0 THEN
        WriteString(
            AppendError(c,
                Error("break statement must be inside a while loop or a switch case",
                      <<>>, node.Position)),
            Line1(Mnemonic.JUMP, <<>>))
    ELSE WriteString(c, Line1(Mnemonic.JUMP, c.breakStack[Len(c.breakStack)]))

\* A faulty CodegenBreakStatement: the jump goes to the bottom of the stack,
\* the end of the outermost construct.
CodegenBreakStatementOutermost(c, node) ==
    IF Len(c.breakStack) = 0 THEN
        AppendError(c,
            Error("break statement must be inside a while loop or a switch case",
                  <<>>, node.Position))
    ELSE WriteString(c, Line1(Mnemonic.JUMP, c.breakStack[1]))

CodegenBreakStatement(c, node) ==
    IF Len(c.breakStack) = 0 THEN
        AppendError(c,
            Error("break statement must be inside a while loop or a switch case",
                  <<>>, node.Position))
    ELSE WriteString(c, Line1(Mnemonic.JUMP, c.breakStack[Len(c.breakStack)]))

\* A faulty pop: the label stays on the stack.
PopBreakStackKeeping(c, label) ==
    IF Len(c.breakStack) = 0 THEN [c EXCEPT !.panicked = TRUE] ELSE c

\* if c.breakStack[len(c.breakStack)-1] == label { pop }; indexing an empty
\* slice panics.
PopBreakStack(c, label) ==
    IF Len(c.breakStack) = 0 THEN [c EXCEPT !.panicked = TRUE]
    ELSE IF c.breakStack[Len(c.breakStack)] = label THEN
        [c EXCEPT !.breakStack = SubSeq(@, 1, Len(@) - 1)]
    ELSE c

PushBreakStack(c, label) == [c EXCEPT !.breakStack = Append(@, label)]

RECURSIVE CodegenStatement(_, _)
RECURSIVE CodegenStatementsFrom(_, _, _)
\* for _, statement := range statements { c.CodegenStatement(statement) }
CodegenStatementsFrom(c, statements, i) ==
    IF i > Len(statements) \/ c.panicked THEN c
    ELSE CodegenStatementsFrom(CodegenStatement(c, statements[i]), statements, i + 1)

CodegenStatementsBlock(c, node) == CodegenStatementsFrom(c, node.Statements, 1)

\* The if statement without an else branch.
IfThen(cond, endIf, node) ==
    WriteString(
        CodegenStatement(
            WriteString(endIf.c, Line2(Mnemonic.JMPZ, endIf.name, cond.name)),
            node.IfBranch),
        LabelLine(endIf.name))

\* A faulty IfThenElse: the else label is placed before the jump over the
\* else branch.
IfThenElseLabelFirst(cond, endIf, else, node) ==
    WriteString(
        CodegenStatement(
            WriteString(
                WriteString(
                    CodegenStatement(
                        WriteString(else.c,
                            Line2(Mnemonic.JMPZ, else.name, cond.name)),
                        node.IfBranch),
                    LabelLine(else.name)),
                Line1(Mnemonic.JUMP, endIf.name)),
            node.ElseBranch),
        LabelLine(endIf.name))

\* The if statement with an else branch.
IfThenElse(cond, endIf, else, node) ==
    WriteString(
        CodegenStatement(
            WriteString(
                WriteString(
                    CodegenStatement(
                        WriteString(else.c,
                            Line2(Mnemonic.JMPZ, else.name, cond.name)),
                        node.IfBranch),
                    Line1(Mnemonic.JUMP, endIf.name)),
                LabelLine(else.name)),
            node.ElseBranch),
        LabelLine(endIf.name))

CodegenIfStatement(c, node) ==
    With(CodegenBooleanExpression(c, node.Condition), LAMBDA cond :
    With(getNewLabel(cond.c), LAMBDA endIf :
        IF node.ElseBranch # NilNode
        THEN IfThenElse(cond, endIf, getNewLabel(endIf.c), node)
        ELSE IfThen(cond, endIf, node)))

\* A faulty WhileBody: the loop ends with the label of its condition.
WhileBodyLoopLabelTwice(cond, conditionLabel, endLoopLabel, node) ==
    WriteString(
        WriteString(
            PopBreakStack(
                CodegenStatement(
                    PushBreakStack(
                        WriteString(cond.c,
                            Line2(Mnemonic.JMPZ, endLoopLabel.name, cond.name)),
                        endLoopLabel.name),
                    node.Body),
                endLoopLabel.name),
            Line1(Mnemonic.JUMP, conditionLabel.name)),
        LabelLine(conditionLabel.name))

\* The loop from the test of the condition to the label after the loop.
WhileBody(cond, conditionLabel, endLoopLabel, node) ==
    WriteString(
        WriteString(
            PopBreakStack(
                CodegenStatement(
                    PushBreakStack(
                        WriteString(cond.c,
                            Line2(Mnemonic.JMPZ, endLoopLabel.name, cond.name)),
                        endLoopLabel.name),
                    node.Body),
                endLoopLabel.name),
            Line1(Mnemonic.JUMP, conditionLabel.name)),
        LabelLine(endLoopLabel.name))

CodegenWhileStatement(c, node) ==
    With(getNewLabel(c), LAMBDA conditionLabel :
    With(getNewLabel(conditionLabel.c), LAMBDA endLoopLabel :
        WhileBody(
            CodegenBooleanExpression(
                WriteString(endLoopLabel.c, LabelLine(conditionLabel.name)),
                node.Condition),
            conditionLabel, endLoopLabel, node)))

\* One case of the first loop: the label l is fresh.
SwitchTest(l, labels, case, temp, code) ==
    [c |-> WriteString(
               WriteString(l.c, Line3(Mnemonic.INQL, temp, code, Itoa(case.Value))),
               Line2(Mnemonic.JMPZ, l.name, temp)),
     labels |-> Append(labels, l.name)]

\* The first loop over node.Cases: one fresh label, one INQL and one JMPZ per
\* case; the labels are collected in order.
RECURSIVE SwitchTests(_, _, _, _, _)
SwitchTests(cl, cases, temp, code, i) ==
    IF i > Len(cases) \/ cl.c.panicked THEN cl
    ELSE SwitchTests(SwitchTest(getNewLabel(cl.c), cl.labels, cases[i], temp, code),
                     cases, temp, code, i + 1)

\* The second loop over node.Cases: each case's label line, then its statements.
RECURSIVE SwitchBodies(_, _, _, _)
SwitchBodies(c, cases, labels, i) ==
    IF i > Len(cases) \/ c.panicked THEN c
    ELSE SwitchBodies(
             CodegenStatement(WriteString(c, LabelLine(labels[i])),
                              StatementsBlock(cases[i].Statements, NoPosition)),
             cases, labels, i + 1)

\* The switch statement from the jump to the default label on.
SwitchRest(tests, defaultLabel, endSwitchLabel, node) ==
    WriteString(
        PopBreakStack(
            CodegenStatement(
                WriteString(
                    SwitchBodies(
                        PushBreakStack(
                            WriteString(endSwitchLabel.c,
                                Line1(Mnemonic.JUMP, defaultLabel.name)),
                            endSwitchLabel.name),
                        node.Cases, tests.labels, 1),
                    LabelLine(defaultLabel.name)),
                StatementsBlock(node.DefaultCase, NoPosition)),
            endSwitchLabel.name),
        LabelLine(endSwitchLabel.name))

\* The switch statement once its expression is generated; a non-integer
\* expression is reported and the statement is generated all the same.
SwitchOn(e, c0, node) ==
    With(getNewTemporary(c0), LAMBDA temp :
    With(SwitchTests([c |-> temp.c, labels |-> <<>>], node.Cases,
                     temp.name, e.exp.Code, 1), LAMBDA tests :
    With(getNewLabel(tests.c), LAMBDA defaultLabel :
        SwitchRest(tests, defaultLabel, getNewLabel(defaultLabel.c), node))))

SwitchValue(e, node) ==
    IF e.exp.isNil THEN e.c
    ELSE SwitchOn(e,
             IF e.exp.Type # Integer
             THEN AppendError(e.c,
                      Error("switch expression must be an integer", <<>>,
                            node.Position))
             ELSE e.c,
             node)

CodegenSwitchStatement(c, node) ==
    SwitchValue(CodegenExpression(c, node.Expression), node)

\* A panic unwinds the whole call of Codegen: once c.panicked is set no later
\* step of the generator runs.
CodegenStatement(c, node) ==
    IF c.panicked THEN c ELSE
    CASE node.kind = "Assignment" -> CodegenAssignmentStatement(c, node)
      [] node.kind = "Input" -> CodegenInputStatement(c, node)
      [] node.kind = "Output" -> CodegenOutputStatement(c, node)
      [] node.kind = "If" -> CodegenIfStatement(c, node)
      [] node.kind = "While" -> CodegenWhileStatement(c, node)
      [] node.kind = "Switch" -> CodegenSwitchStatement(c, node)
      [] node.kind = "Break" -> CodegenBreakStatement(c, node)
      [] node.kind = "Block" -> CodegenStatementsBlock(c, node)
      [] OTHER -> c

\* One name of a declaration: a name already in the table is reported and
\* skipped, a new one is entered with the declaration's type.
DeclareNameOverwriting(c, name, declaration) ==
    IF Exists(c, name) THEN
        [AppendError(c, Error("variable %s already defined", name,
                              declaration.Position))
            EXCEPT !.Variables = (name :> declaration.Type) @@ @]
    ELSE [c EXCEPT !.Variables = (name :> declaration.Type) @@ @]

DeclareName(c, name, declaration) ==
    IF Exists(c, name) THEN
        AppendError(c, Error("variable %s already defined", name,
                             declaration.Position))
    ELSE [c EXCEPT !.Variables = (name :> declaration.Type) @@ @]

\* The loop over declaration.Names.
RECURSIVE DeclareNames(_, _, _)
DeclareNames(c, declaration, i) ==
    IF i > Len(declaration.Names) \/ c.panicked THEN c
    ELSE DeclareNames(DeclareName(c, declaration.Names[i], declaration),
                      declaration, i + 1)

RECURSIVE DeclareAll(_, _, _)
DeclareAll(c, declarations, i) ==
    IF i > Len(declarations) THEN c
    ELSE DeclareAll(DeclareNames(c, declarations[i], 1), declarations, i + 1)

\* A faulty CodegenProgram: HALT is written before the top-level block too.
CodegenProgramHaltingEarly(c, node) ==
    WriteString(
        CodegenStatement(
            WriteString(DeclareAll(c, node.Declarations, 1), Mnemonic.HALT \o <<NL>>),
            node.StatementsBlock),
        Mnemonic.HALT \o <<NL>>)

CodegenProgram(c, node) ==
    WriteString(
        CodegenStatement(DeclareAll(c, node.Declarations, 1), node.StatementsBlock),
        Mnemonic.HALT \o <<NL>>)

\* Codegen(program) returns (buf.String(), c.Errors).
Codegen(node) == CodegenProgram(NewCodeGenerator, node)

(***************************************************************************)
(* RemoveLabels (codeGen.go): the loop runs over the lines of the text as  *)
(* it was on entry, while both replacements act on the current text.       *)
(***************************************************************************)
\* if strings.HasSuffix(line, ":") { ... }: the label line is deleted, then the
\* label is replaced by the number i - labels + 1 everywhere in the text.
RemoveLabel(text, line, number) ==
    ReplaceAll(ReplaceAll(text, line \o <<NL>>, <<>>),
               SubSeq(line, 1, Len(line) - 1), Itoa(number))

RECURSIVE RemoveLabelsFrom(_, _, _, _)
\* A faulty loop body: the label line is deleted and the references to the
\* label are left as they are.
RemoveLabelsFromKeepingReferences(text, lines, labelLines, k) ==
    IF k > Len(labelLines) \/ text = <<>> THEN text
    ELSE RemoveLabelsFrom(
             ReplaceAll(text, lines[labelLines[k]] \o <<NL>>, <<>>),
             lines, labelLines, k + 1)

\* One iteration of the loop body for each line that ends with ":" (the loop
\* does nothing at the other lines); labelLines holds their indices in lines,
\* and the k-th of them sees i = labelLines[k] - 1 and labels = k - 1.
RemoveLabelsFrom(text, lines, labelLines, k) ==
    \* Nothing is left to replace in an empty text; testing it here also has
    \* the text of each iteration evaluated before the next one starts.
    IF k > Len(labelLines) \/ text = <<>> THEN text
    ELSE RemoveLabelsFrom(
             RemoveLabel(text, lines[labelLines[k]],
                         (labelLines[k] - 1) - (k - 1) + 1),
             lines, labelLines, k + 1)

\* The indices of the lines that end with ":".
LabelLines(lines) ==
    SelectSeq(Indices(Len(lines)), LAMBDA i : HasSuffix(lines[i], <<":">>))

RemoveLabelsOf(text, lines) == RemoveLabelsFrom(text, lines, LabelLines(lines), 1)

RemoveLabels(text) == RemoveLabelsOf(text, Split(text))

(***************************************************************************)
(* The command-line driver (main).                                         *)
(***************************************************************************)
\* The output file when ioutil.WriteFile was not called.
NoFile == [written |-> FALSE]

\* The line main prints first and appends to the file it writes.
Signature ==
    <<"C", "P", "L", SP, "t", "o", SP, "Q", "u", "a", "d", SP, "c", "o",
      "m", "p", "i", "l", "e", "r", SP, "b", "y", SP, "N", "o", "f", SP,
      "S", "h", "a", "b", "t", "a", "y", ".">>

\* path.Ext: the suffix that starts at the last dot of the last element of
\* the path, empty when that element has no dot.
Ext(path) ==
    LET dots == {i \in 1..Len(path) :
                    path[i] = "." /\ \A j \in i..Len(path) : path[j] # "/"} IN
    IF dots = {} THEN <<>>
    ELSE SubSeq(path, CHOOSE i \in dots : \A j \in dots : j <= i, Len(path))

\* infile[0:len(infile)-3] + ".qud"
OutfileOf(infile) == SubSeq(infile, 1, Len(infile) - 3) \o <<".", "q", "u", "d">>

\* The test that guards the write of the output file.
ShouldWriteWhenParsed(errorsOfParse, errorsOfCodegen) ==
    Len(errorsOfParse) = 0

ShouldWrite(errorsOfParse, errorsOfCodegen) ==
    Len(errorsOfParse) = 0 /\ Len(errorsOfCodegen) = 0

\* main up to the read of the input file: the checks of the arguments.
MainArguments ==
    /\ mode = "compile" /\ pc = "start"
    /\ pc' = IF args.count # 2 THEN "exited"
             ELSE IF Ext(args.infile) # <<".", "o", "u">> THEN "exited"
             ELSE IF ~args.readable THEN "exited"
             ELSE "read"
    /\ UNCHANGED <<mode, genVars, cliVars, scanVars>>

\* ast, parseErrors := cpq.Parse(string(code)); a stack overflow inside
\* Parse ends the process.
MainParse ==
    /\ mode = "compile" /\ pc = "read"
    /\ \E r \in {Parse(src, scanner.copy)} :
       IF r.overflow
       THEN /\ pc' = "overflow"
            /\ UNCHANGED <<program, parseErrors>>
       ELSE /\ pc' = "parsed"
            /\ program' = r.program
            /\ parseErrors' = r.errors
    /\ UNCHANGED <<mode, buildOps, quad, genErrors, final, args, src, outFile,
                   scanVars>>

\* output, codegenErrors := cpq.Codegen(ast)
MainCodegen ==
    /\ mode = "compile" /\ pc = "parsed"
    /\ \E c \in {Codegen(program)} :
       IF c.panicked
       THEN /\ pc' = "panic"
            /\ UNCHANGED <<quad, genErrors>>
       ELSE /\ pc' = "generated"
            /\ quad' = c.output
            /\ genErrors' = c.Errors
    /\ UNCHANGED <<mode, program, buildOps, final, cliVars, scanVars>>

\* The end of main: the file is written when both lists of errors are empty.
MainWrite ==
    /\ mode = "compile" /\ pc = "generated"
    /\ pc' = "returned"
    /\ IF ShouldWrite(parseErrors, genErrors)
       THEN /\ final' = RemoveLabels(quad)
            /\ outFile' = [written |-> TRUE, name |-> OutfileOf(args.infile),
                           content |-> final' \o <<NL>> \o Signature]
       ELSE UNCHANGED <<final, outFile>>
    /\ UNCHANGED <<mode, program, buildOps, quad, genErrors, args, src,
                   parseErrors, scanVars>>

(***************************************************************************)
(* SpecGen: programs are built as values of the AST types, handed to       *)
(* Codegen, and the generated text is handed to RemoveLabels.              *)
(***************************************************************************)
xName == <<"x">>
yName == <<"y">>
haltName == <<"H", "A", "L", "T">>

\* x: int; HALT: float;   (y is never declared)
BuildDeclarations ==
    <<Declaration(<<xName>>, Integer, NoPosition),
      Declaration(<<haltName>>, Float, NoPosition)>>

\* x < 5
BuildCondition ==
    CompareBooleanExpression(VariableExpression(xName, NoPosition), LessThan,
                             IntLiteral(5, NoPosition), NoPosition)

\* case i: break;  for i = 1..n
BuildCases(n) ==
    [i \in 1..n |-> SwitchCase(i, <<BreakStatement(NoPosition)>>, NoPosition)]

Body == program.StatementsBlock.Statements

Build(statements) ==
    /\ mode = "gen"
    /\ pc = "build"
    /\ buildOps < MaxBuildOps
    /\ program' = [program EXCEPT !.StatementsBlock.Statements = statements]
    /\ buildOps' = buildOps + 1
    /\ UNCHANGED <<mode, pc, quad, genErrors, final, cliVars, scanVars>>

AppendBreak == Build(Append(Body, BreakStatement(NoPosition)))

AppendInput ==
    \E v \in {xName, yName} : Build(Append(Body, InputStatement(v, NoPosition)))

AppendOutput ==
    Build(Append(Body,
                 OutputStatement(VariableExpression(haltName, NoPosition),
                                 NoPosition)))

AppendAssignment ==
    Build(Append(Body,
                 AssignmentStatement(xName, IntLiteral(5, NoPosition), Unknown,
                                     NoPosition)))

WrapWhile ==
    Build(<<WhileStatement(BuildCondition, StatementsBlock(Body, NoPosition),
                           NoPosition)>>)

WrapIf ==
    \E withElse \in BOOLEAN :
        Build(<<IfStatement(BuildCondition, StatementsBlock(Body, NoPosition),
                            IF withElse
                            THEN StatementsBlock(<<BreakStatement(NoPosition)>>,
                                                 NoPosition)
                            ELSE NilNode,
                            NoPosition)>>)

WrapSwitch ==
    \E n \in {1, MaxCases} :
        Build(<<SwitchStatement(VariableExpression(xName, NoPosition),
                                BuildCases(n), Body, NoPosition)>>)

\* text, errors := Codegen(program); the function may be called on the same
\* program a second time, and every call makes its own generator.
GenCodegen ==
    /\ mode = "gen"
    /\ pc \in {"build", "generated"}
    /\ \E c \in {Codegen(program)} :
        /\ quad' = c.output
        /\ genErrors' = c.Errors
        /\ pc' = IF c.panicked THEN "panic"
                 ELSE IF pc = "build" THEN "generated" ELSE "regenerated"
    /\ UNCHANGED <<mode, program, buildOps, final, cliVars, scanVars>>

\* RemoveLabels(text)
GenRemoveLabels ==
    /\ mode = "gen"
    /\ pc \in {"generated", "regenerated"}
    /\ final' = RemoveLabels(quad)
    /\ pc' = "removed"
    /\ UNCHANGED <<mode, program, buildOps, quad, genErrors, cliVars, scanVars>>

InitGen ==
    /\ mode = "gen"
    /\ pc = "build"
    /\ program = Program(BuildDeclarations, StatementsBlock(<<>>, NoPosition),
                         NoPosition)
    /\ buildOps = 0
    /\ quad = <<>>
    /\ genErrors = <<>>
    /\ final = <<>>
    /\ args = "none"
    /\ src = <<>>
    /\ parseErrors = <<>>
    /\ outFile = NoFile
    /\ scanner = NewScanner(<<>>, "scanner")
    /\ tokens = <<>>

NextGen ==
    \/ AppendBreak
    \/ AppendInput
    \/ AppendOutput
    \/ AppendAssignment
    \/ WrapWhile
    \/ WrapIf
    \/ WrapSwitch
    \/ GenCodegen
    \/ GenRemoveLabels

SpecGen == InitGen /\ [][NextGen]_vars


(***************************************************************************)
(* SpecExpr: Codegen, twice, and RemoveLabels on a program of one          *)
(* statement over the declarations x: int; HALT: float; the statement is   *)
(* an assignment, an output, a switch or a while, over every operand and   *)
(* every arithmetic expression of two operands.                            *)
(***************************************************************************)
MaxSwitchCases == 3

\* x, HALT, the undeclared y, 5 and 2.5
Operands ==
    {VariableExpression(n, NoPosition) : n \in {xName, haltName, yName}}
        \cup {IntLiteral(5, NoPosition), FloatLiteral(2500000, NoPosition)}

Values ==
    Operands \cup {ArithmeticExpression(l, op, r, NoPosition) :
                       l \in Operands, op \in {Add, Divide}, r \in Operands}

Comparisons ==
    {CompareBooleanExpression(l, op, r, NoPosition) :
        l \in Operands, op \in {LessThan, EqualTo}, r \in Operands}

\* x < 5, x == 5, HALT < 2.5 and, with the undeclared y, y < 5
BoolAtoms ==
    {CompareBooleanExpression(VariableExpression(xName, NoPosition), LessThan,
                              IntLiteral(5, NoPosition), NoPosition),
     CompareBooleanExpression(VariableExpression(xName, NoPosition), EqualTo,
                              IntLiteral(5, NoPosition), NoPosition),
     CompareBooleanExpression(VariableExpression(haltName, NoPosition), LessThan,
                              FloatLiteral(2500000, NoPosition), NoPosition),
     CompareBooleanExpression(VariableExpression(yName, NoPosition), LessThan,
                              IntLiteral(5, NoPosition), NoPosition)}

\* a || b and a && b over the atoms
BoolPairs ==
    {OrBooleanExpression(a, b, NoPosition) : a \in BoolAtoms, b \in BoolAtoms}
        \cup {AndBooleanExpression(a, b, NoPosition) :
                  a \in BoolAtoms, b \in BoolAtoms}

\* The conditions of the if statements: atoms, !a, a || b, a && b, !(p),
\* p || !(x < 5) and !(x < 5) && p for the pairs p, and the comparisons with
\* >= and <= of every two operands.
Conditions ==
    BoolAtoms \cup BoolPairs
        \cup {NotBooleanExpression(b, NoPosition) : b \in BoolAtoms \cup BoolPairs}
        \cup {OrBooleanExpression(
                  p, NotBooleanExpression(
                         CompareBooleanExpression(
                             VariableExpression(xName, NoPosition), LessThan,
                             IntLiteral(5, NoPosition), NoPosition), NoPosition),
                  NoPosition) : p \in BoolPairs}
        \cup {AndBooleanExpression(
                  NotBooleanExpression(
                      CompareBooleanExpression(
                          VariableExpression(xName, NoPosition), LessThan,
                          IntLiteral(5, NoPosition), NoPosition), NoPosition),
                  p, NoPosition) : p \in BoolPairs}
        \cup {CompareBooleanExpression(l, op, r, NoPosition) :
                  l \in Operands,
                  op \in {GreaterThanOrEqualTo, LessThenOrEqualTo},
                  r \in Operands}

\* if (b) { output(HALT); } [else { x = 5; }]
IfStatements ==
    {IfStatement(b,
                 StatementsBlock(
                     <<OutputStatement(VariableExpression(haltName, NoPosition),
                                       NoPosition)>>, NoPosition),
                 else, NoPosition) :
        b \in Conditions,
        else \in {NilNode,
                  StatementsBlock(
                      <<AssignmentStatement(xName, IntLiteral(5, NoPosition),
                                            Unknown, NoPosition)>>,
                      NoPosition)}}

ExprStatements ==
    IfStatements \cup
    {AssignmentStatement(n, v, t, NoPosition) :
        n \in {xName, haltName, yName}, v \in Values,
        t \in {Unknown, Integer, Float}}
    \cup {OutputStatement(v, NoPosition) : v \in Values}
    \cup {SwitchStatement(v, BuildCases(n), <<>>, NoPosition) :
              v \in Values, n \in 0..MaxSwitchCases}
    \cup {WhileStatement(b, StatementsBlock(<<>>, NoPosition), NoPosition) :
              b \in Comparisons}

MaxDeclarations == 2

\* The declarations of the names x; x, x; x, HALT; HALT as int or as float,
\* the i-th declaration being on line i.
DeclarationsAt(i) ==
    {Declaration(names, type, Position(i, 0)) :
        names \in {<<xName>>, <<xName, xName>>, <<xName, haltName>>,
                   <<haltName>>},
        type \in {Integer, Float}}

DeclarationLists ==
    UNION {{d \in [1..n -> UNION {DeclarationsAt(i) : i \in 1..n}] :
               \A i \in 1..n : d[i] \in DeclarationsAt(i)} :
           n \in 1..MaxDeclarations}

\* x: <no type>; HALT: float; as ParseType leaves it for x: real;
UnknownDeclarations ==
    <<Declaration(<<xName>>, Unknown, NoPosition),
      Declaration(<<haltName>>, Float, NoPosition)>>

\* { { n = static_cast<t>(v); } } over x of Unknown type and HALT: float.
UnknownTypePrograms ==
    {Program(UnknownDeclarations,
             StatementsBlock(
                 <<StatementsBlock(
                       <<AssignmentStatement(n, v, t, NoPosition)>>,
                       NoPosition)>>, NoPosition),
             NoPosition) :
        n \in {xName, haltName}, v \in Values, t \in {Unknown, Integer, Float}}

\* while (x < 5) { switch (x) { default: break; } break; }
BreakInEmptySwitch ==
    WhileStatement(BuildCondition,
        StatementsBlock(
            <<SwitchStatement(VariableExpression(xName, NoPosition), <<>>,
                              <<BreakStatement(NoPosition)>>, NoPosition),
              BreakStatement(NoPosition)>>, NoPosition), NoPosition)

\* while (x < 5) { if (x < 5) { break; } else { break; } }
BreakInBranches ==
    WhileStatement(BuildCondition,
        StatementsBlock(
            <<IfStatement(BuildCondition,
                          StatementsBlock(<<BreakStatement(NoPosition)>>,
                                          NoPosition),
                          StatementsBlock(<<BreakStatement(NoPosition)>>,
                                          NoPosition),
                          NoPosition)>>, NoPosition), NoPosition)

\* switch (x) { case 1: break; case 2: while (x < 5) { break; } default: break; }
LoopInCase ==
    SwitchStatement(VariableExpression(xName, NoPosition),
        <<SwitchCase(1, <<BreakStatement(NoPosition)>>, NoPosition),
          SwitchCase(2,
              <<WhileStatement(BuildCondition,
                    StatementsBlock(<<BreakStatement(NoPosition)>>, NoPosition),
                    NoPosition)>>, NoPosition)>>,
        <<BreakStatement(NoPosition)>>, NoPosition)

\* { { statement } break; } for the three nested statements.
NestedPrograms ==
    {Program(BuildDeclarations,
             StatementsBlock(
                 <<StatementsBlock(<<statement>>, NoPosition),
                   BreakStatement(NoPosition)>>, NoPosition),
             NoPosition) :
        statement \in {BreakInEmptySwitch, BreakInBranches, LoopInCase}}

\* The programs of one statement over x: int; HALT: float, the programs
\* output(x) over every list of declarations, the assignments over a
\* variable of Unknown type, and the nested statements.
ExprPrograms ==
    UnknownTypePrograms \cup NestedPrograms \cup
    {Program(BuildDeclarations, StatementsBlock(<<statement>>, NoPosition),
             NoPosition) : statement \in ExprStatements}
    \cup {Program(declarations,
                  StatementsBlock(
                      <<OutputStatement(VariableExpression(xName, NoPosition),
                                        NoPosition)>>, NoPosition),
                  NoPosition) : declarations \in DeclarationLists}

InitExpr ==
    /\ mode = "gen"
    /\ pc = "build"
    /\ program \in ExprPrograms
    /\ buildOps = MaxBuildOps
    /\ quad = <<>>
    /\ genErrors = <<>>
    /\ final = <<>>
    /\ args = "none"
    /\ src = <<>>
    /\ parseErrors = <<>>
    /\ outFile = NoFile
    /\ scanner = NewScanner(<<>>, "scanner")
    /\ tokens = <<>>

NextExpr ==
    \/ GenCodegen
    \/ GenRemoveLabels

SpecExpr == InitExpr /\ [][NextExpr]_vars


(***************************************************************************)
(* SpecScan: a scanner is made over a text that starts with an identifier  *)
(* shaped lexeme, and Scan is called on it again and again.                *)
(***************************************************************************)
MaxLexemeLen == 11
MaxTokens == 3

\* n times the letter a, and the same with one character after the first
\* replaced by a digit or an underscore.
PlainLexemes == {[i \in 1..n |-> "a"] : n \in 1..MaxLexemeLen}

MixedLexemes ==
    UNION {{[w EXCEPT ![k] = ch] : k \in 2..Len(w), ch \in {"1", "_"}} :
              w \in PlainLexemes}

\* The keywords, each also without its last character and with one more.
KeywordLexemes ==
    UNION {{k.Lexeme, SubSeq(k.Lexeme, 1, Len(k.Lexeme) - 1), k.Lexeme \o <<"s">>} :
              k \in Keywords}

ScanLexemes == PlainLexemes \cup MixedLexemes \cup KeywordLexemes

\* What follows the lexeme in the text.
ScanTerminators == {<<>>, <<SP>>, <<";">>, <<"=", "=", "b">>}

\* Texts of one operator character, alone and followed by one or two more
\* characters.
OperatorFirsts == {">", "<", "=", "!", "&", "|"}

OperatorSeconds == {"=", "&", "|", "a", SP}

OperatorTexts ==
    {<<c>> : c \in OperatorFirsts}
        \cup {<<c, d>> : c \in OperatorFirsts, d \in OperatorSeconds}
        \cup {<<c, d, "=">> : c \in OperatorFirsts, d \in OperatorSeconds}

\* Texts that open a comment: the characters after the "/*" are stars, slashes
\* and letters, followed by nothing, by "*/" or by "*/a".
MaxCommentLen == 3

CommentBodies ==
    UNION {[1..n -> {"*", "/", "a"}] : n \in 0..MaxCommentLen}

CommentTexts ==
    {<<"/", "*">> \o body \o tail :
        body \in CommentBodies,
        tail \in {<<>>, <<"*", "/">>, <<"*", "/", "a">>}}

\* Short texts: the empty one, one token, one token and whitespace.
EndTexts ==
    {<<>>, <<SP>>, <<NL>>, <<";">>, <<";", SP>>, <<"7">>, <<"/">>,
     <<"/", "a">>, <<"a", NL>>}

ScanTexts ==
    {l \o t : l \in ScanLexemes, t \in ScanTerminators}
        \cup OperatorTexts \cup CommentTexts \cup EndTexts

InitScan ==
    /\ mode = "scan"
    /\ pc = "scan"
    /\ src \in ScanTexts
    /\ \E copy \in ScannerCopies : scanner = NewScanner(src, copy)
    /\ tokens = <<>>
    /\ program = Program(<<>>, StatementsBlock(<<>>, NoPosition), NoPosition)
    /\ buildOps = 0
    /\ quad = <<>>
    /\ genErrors = <<>>
    /\ final = <<>>
    /\ args = "none"
    /\ parseErrors = <<>>
    /\ outFile = NoFile

\* tok := s.Scan()
ScanNext ==
    /\ mode = "scan"
    /\ Len(tokens) < MaxTokens
    /\ \E r \in {Scan(scanner)} :
        /\ scanner' = r.s
        /\ tokens' = Append(tokens, r.tok)
    /\ UNCHANGED <<mode, pc, genVars, cliVars>>

NextScan == ScanNext

SpecScan == InitScan /\ [][NextScan]_vars

(***************************************************************************)
(* SpecCompile: main is run on an argument list and an input file; the     *)
(* file holds one of the source texts below.                               *)
(***************************************************************************)
\* x: int; { output(x); }
OutputSource ==
    <<"x", ":", SP, "i", "n", "t", ";", SP, "{", SP, "o", "u", "t", "p",
      "u", "t", "(", "x", ")", ";", SP, "}">>

\* x: int { output(x); }
MissingSemicolonSource ==
    <<"x", ":", SP, "i", "n", "t", SP, "{", SP, "o", "u", "t", "p", "u",
      "t", "(", "x", ")", ";", SP, "}">>

\* x: int; { x = 5; output(x); }
AssignOutputSource ==
    <<"x", ":", SP, "i", "n", "t", ";", SP, "{", SP, "x", SP, "=", SP, "5",
      ";", SP, "o", "u", "t", "p", "u", "t", "(", "x", ")", ";", SP, "}">>

\* { }
EmptyBlockSource ==
    <<"{", SP, "}">>

\* x: int; { input(x); }
InputSource ==
    <<"x", ":", SP, "i", "n", "t", ";", SP, "{", SP, "i", "n", "p", "u",
      "t", "(", "x", ")", ";", SP, "}">>

\* x: int { input(x); }
MissingSemicolonInputSource ==
    <<"x", ":", SP, "i", "n", "t", SP, "{", SP, "i", "n", "p", "u", "t",
      "(", "x", ")", ";", SP, "}">>

\* { break; }
BreakSource ==
    <<"{", SP, "b", "r", "e", "a", "k", ";", SP, "}">>

\* { input(y); }
UndeclaredSource ==
    <<"{", SP, "i", "n", "p", "u", "t", "(", "y", ")", ";", SP, "}">>

\* x: int; { while (x < 5) { input(x); } }
WhileSource ==
    <<"x", ":", SP, "i", "n", "t", ";", SP, "{", SP, "w", "h", "i", "l",
      "e", SP, "(", "x", SP, "<", SP, "5", ")", SP, "{", SP, "i", "n", "p",
      "u", "t", "(", "x", ")", ";", SP, "}", SP, "}">>

\* x: int; { if (!(x == 5)) input(x); else { } }
IfNotSource ==
    <<"x", ":", SP, "i", "n", "t", ";", SP, "{", SP, "i", "f", SP, "(", "!",
      "(", "x", SP, "=", "=", SP, "5", ")", ")", SP, "i", "n", "p", "u",
      "t", "(", "x", ")", ";", SP, "e", "l", "s", "e", SP, "{", SP, "}", SP,
      "}">>

\* (the empty text)
EmptySource ==
    <<>>

\* a, b: float;\n{\n\tinput(a);\r\n\tinput(b);\n}\n
TwoFloatsSource ==
    <<"a", ",", SP, "b", ":", SP, "f", "l", "o", "a", "t", ";", NL, "{", NL,
      TAB, "i", "n", "p", "u", "t", "(", "a", ")", ";", CR, NL, TAB, "i",
      "n", "p", "u", "t", "(", "b", ")", ";", NL, "}", NL>>

\* x: int; { switch () { case 1: input(x); break; default: } }
SwitchSource ==
    <<"x", ":", SP, "i", "n", "t", ";", SP, "{", SP, "s", "w", "i", "t",
      "c", "h", SP, "(", ")", SP, "{", SP, "c", "a", "s", "e", SP, "1", ":",
      SP, "i", "n", "p", "u", "t", "(", "x", ")", ";", SP, "b", "r", "e",
      "a", "k", ";", SP, "d", "e", "f", "a", "u", "l", "t", ":", SP, "}",
      SP, "}">>

\* /* nothing */ { }
CommentSource ==
    <<"/", "*", SP, "n", "o", "t", "h", "i", "n", "g", SP, "*", "/", SP,
      "{", SP, "}">>

\* x: int; { x = static_cast(int); }
CastSource ==
    <<"x", ":", SP, "i", "n", "t", ";", SP, "{", SP, "x", SP, "=", SP, "s",
      "t", "a", "t", "i", "c", "_", "c", "a", "s", "t", "(", "i", "n", "t",
      ")", ";", SP, "}">>

\* x: real; { input(x); }
BadTypeSource ==
    <<"x", ":", SP, "r", "e", "a", "l", ";", SP, "{", SP, "i", "n", "p",
      "u", "t", "(", "x", ")", ";", SP, "}">>

\* x: int; { switch () { case 1.5: break; default: } } }
NonIntCaseSource ==
    <<"x", ":", SP, "i", "n", "t", ";", SP, "{", SP, "s", "w", "i", "t",
      "c", "h", SP, "(", ")", SP, "{", SP, "c", "a", "s", "e", SP, "1",
      ".", "5", ":", SP, "b", "r", "e", "a", "k", ";", SP, "d", "e", "f",
      "a", "u", "l", "t", ":", SP, "}", SP, "}", SP, "}">>

CompileSources ==
    {OutputSource, MissingSemicolonSource, AssignOutputSource,
     EmptyBlockSource, InputSource, MissingSemicolonInputSource,
     BreakSource, UndeclaredSource, WhileSource,
     IfNotSource, EmptySource, TwoFloatsSource,
     SwitchSource, CommentSource, CastSource,
     BadTypeSource, NonIntCaseSource}

\* Source texts that the grammar of CPL derives.
GrammarSources ==
    {OutputSource, AssignOutputSource, EmptyBlockSource, InputSource,
     WhileSource, IfNotSource, TwoFloatsSource, CommentSource}

InputFile == <<"p", ".", "o", "u">>

\* The ways main is started: len(os.Args), os.Args[1], and whether the file
\* of that name can be read.
Invocations ==
    {[count |-> 1, infile |-> <<>>, readable |-> FALSE],
     [count |-> 3, infile |-> InputFile, readable |-> TRUE],
     [count |-> 2, infile |-> <<"p", ".", "c", "p", "l">>, readable |-> TRUE],
     [count |-> 2, infile |-> <<"p">>, readable |-> TRUE],
     [count |-> 2, infile |-> <<"d", ".", "o", "u", "/", "p">>,
      readable |-> TRUE],
     [count |-> 2, infile |-> InputFile, readable |-> FALSE],
     [count |-> 2, infile |-> InputFile, readable |-> TRUE],
     [count |-> 2, infile |-> <<"d", "/", "p", ".", "o", "u">>,
      readable |-> TRUE]}

InitCompile ==
    /\ mode = "compile"
    /\ pc = "start"
    /\ args \in Invocations
    /\ src \in CompileSources
    /\ \E copy \in ScannerCopies : scanner = NewScanner(src, copy)
    /\ tokens = <<>>
    /\ program = Program(<<>>, StatementsBlock(<<>>, NoPosition), NoPosition)
    /\ buildOps = 0
    /\ quad = <<>>
    /\ genErrors = <<>>
    /\ final = <<>>
    /\ parseErrors = <<>>
    /\ outFile = NoFile

NextCompile ==
    \/ MainArguments
    \/ MainParse
    \/ MainCodegen
    \/ MainWrite

SpecCompile == InitCompile /\ [][NextCompile]_vars

(***************************************************************************)
(* Properties of the generated text and of RemoveLabels (SpecGen).         *)
(***************************************************************************)
DigitSet == {DigitChars[i] : i \in 1..Len(DigitChars)}

IsLabelLine(line) == HasSuffix(line, <<":">>)

\* A token of the form @<digits>.
IsLabelToken(tok) ==
    /\ Len(tok) >= 2
    /\ tok[1] = "@"
    /\ \A k \in 2..Len(tok) : tok[k] \in DigitSet

\* The 1-based number, among the lines that are not label lines, of the first
\* instruction after line d.
TargetOf(lines, d) ==
    Cardinality({j \in 1..(d - 1) : ~IsLabelLine(lines[j])}) + 1

\* What a token of an instruction has to become: a label that lines defines
\* becomes the number of the instruction after its definition line, any other
\* token stays.
ResolvedToken(lines, tok) ==
    IF IsLabelToken(tok) /\ \E d \in 1..Len(lines) : lines[d] = tok \o <<":">>
    THEN Itoa(TargetOf(lines,
                       CHOOSE d \in 1..Len(lines) : lines[d] = tok \o <<":">>))
    ELSE tok

\* The lines that are not label lines, in order.
InstructionLines(lines) == SelectSeq(lines, LAMBDA line : ~IsLabelLine(line))

\* C1: after RemoveLabels the lines of the text are the instructions of the
\* generated text in order, and every jump operand that was a label is the
\* 1-based line number of the instruction that followed the label's
\* definition line; this for every number of labels, 10 and more included.
C1_JumpTargetsAreLineNumbers ==
    pc = "removed" =>
        LET lines == Split(quad)
            instructions == InstructionLines(lines)
            out == Split(final) IN
        /\ Len(out) = Len(instructions)
        /\ \A n \in 1..Len(instructions) :
               LET want == SplitOn(instructions[n], SP)
                   got == SplitOn(out[n], SP) IN
               /\ Len(got) = Len(want)
               /\ \A t \in 1..Len(want) : got[t] = ResolvedToken(lines, want[t])

\* The same statement for the texts that define fewer than ten labels.
JumpTargetsOfFewLabels ==
    (pc = "removed" /\ Matches(quad, <<"@", "1", "0", ":">>) = <<>>)
        => C1_JumpTargetsAreLineNumbers

\* C2: the result of RemoveLabels holds no @<digits>: neither a label
\* definition line nor a reference token is left anywhere in the text.
C2_NoLabelRemains ==
    pc = "removed" =>
        \A j \in 1..(Len(final) - 1) :
            ~(final[j] = "@" /\ final[j + 1] \in DigitSet)

\* A text with ten labels or more, and with references to them, went through
\* RemoveLabels.
C2_Witness ==
    /\ pc = "removed"
    /\ Matches(quad, <<"@", "1", "0", ":">>) # <<>>
    /\ Matches(quad, <<"J", "U", "M", "P", " ", "@", "1", "0", NL>>) # <<>>
    /\ Matches(final, <<"@">>) = <<>>

\* C4: whatever the program, the text Codegen returns ends with the line
\* HALT, and no other line of it is HALT.
C4_EndsWithSingleHalt ==
    pc \in {"generated", "removed"} =>
        LET lines == Split(quad) IN
        /\ Len(lines) >= 2
        /\ lines[Len(lines)] = <<>>
        /\ lines[Len(lines) - 1] = Mnemonic.HALT
        /\ Cardinality({i \in 1..Len(lines) : lines[i] = Mnemonic.HALT}) = 1

\* A program with a semantic error whose block prints the variable HALT.
C4_Witness ==
    /\ pc = "generated"
    /\ genErrors # <<>>
    /\ Matches(quad, <<"R", "P", "R", "T", " ", "H", "A", "L", "T", NL>>) # <<>>
    /\ HasSuffix(quad, <<NL, "H", "A", "L", "T", NL>>)

BreakError ==
    Error("break statement must be inside a while loop or a switch case", <<>>,
          NoPosition)

RemoveAt(seq, j) == SubSeq(seq, 1, j - 1) \o SubSeq(seq, j + 1, Len(seq))

\* program without the i-th statement of its top-level block.
WithoutStatement(i) ==
    [program EXCEPT !.StatementsBlock.Statements = RemoveAt(@, i)]

\* C8: a break of the top-level block (the break stack is empty there) adds
\* exactly one diagnostic, the one about a break outside a loop or a switch,
\* and leaves the text as it is without that statement: no JUMP is written.
C8_BreakOutsideLoop ==
    pc = "generated" =>
        \A i \in 1..Len(Body) :
            Body[i].kind = "Break" =>
                LET without == Codegen(WithoutStatement(i)) IN
                /\ quad = without.output
                /\ \E j \in 1..Len(genErrors) :
                       /\ genErrors[j] = BreakError
                       /\ RemoveAt(genErrors, j) = without.Errors

\* A break at the top level of a program that also has a loop with a break
\* inside, whose jump is written.
C8_Witness ==
    /\ pc = "generated"
    /\ \E i \in 1..Len(Body) : Body[i].kind = "Break"
    /\ \E i \in 1..Len(Body) : Body[i].kind = "While"
    /\ Matches(quad, <<"J", "U", "M", "P", " ", "@", "2", NL>>) # <<>>
    /\ Len(genErrors) = 1


\* The tokens of every line of a text.
TokensOf(text) ==
    UNION {{SplitOn(line, SP)[t] : t \in 1..Len(SplitOn(line, SP))} :
           line \in {Split(text)[n] : n \in 1..Len(Split(text))}}

\* A token of the form _t<digits>.
IsTemporaryToken(tok) ==
    /\ Len(tok) >= 3
    /\ tok[1] = "_"
    /\ tok[2] = "t"
    /\ \A k \in 3..Len(tok) : tok[k] \in DigitSet

\* The temporaries a text names, and the labels it names (as the target of a
\* jump or on a definition line).
TemporariesOf(text) == {tok \in TokensOf(text) : IsTemporaryToken(tok)}

LabelsOf(text) ==
    {tok \in TokensOf(text) : IsLabelToken(tok)}
        \cup {SubSeq(tok, 1, Len(tok) - 1) : tok \in
                  {t \in TokensOf(text) : IsLabelLine(t)
                                         /\ IsLabelToken(SubSeq(t, 1, Len(t) - 1))}}

\* A second run of Codegen on the same program gives the text and the
\* diagnostics of the first run.
SecondRunAgrees ==
    [][(pc = "generated" /\ pc' = "regenerated")
           => (quad' = quad /\ genErrors' = genErrors)]_vars

\* The text of a run names the temporaries _t1 .. _t<k> and the labels
\* @1 .. @<m>, k and m being the two counters the run ends with: each kind is
\* numbered from 1 without a gap, whatever was allocated of the other kind.
NumberedFromOne ==
    pc \in {"generated", "regenerated"} =>
        LET c == Codegen(program) IN
        /\ TemporariesOf(quad)
               = {<<"_", "t">> \o Itoa(i) : i \in 1..c.temporaryIndex}
        /\ LabelsOf(quad) = {<<"@">> \o Itoa(j) : j \in 1..c.labelIndex}

Declared ==
    [NewCodeGenerator EXCEPT
        !.Variables = (xName :> Integer) @@ (haltName :> Float)]

\* The one statement of the program.
TheStatement == Body[1]

\* Lines n and n + 1 are an inequality test of a switch and its conditional
\* jump: INQL t e v, then JMPZ label t.
IsSwitchTest(lines, n, e, v) ==
    /\ n + 1 <= Len(lines)
    /\ Len(SplitOn(lines[n], SP)) = 4
    /\ Len(SplitOn(lines[n + 1], SP)) = 3
    /\ SplitOn(lines[n], SP)[1] = <<"I", "N", "Q", "L">>
    /\ IsTemporaryToken(SplitOn(lines[n], SP)[2])
    /\ SplitOn(lines[n], SP)[3] = e
    /\ SplitOn(lines[n], SP)[4] = Itoa(v)
    /\ SplitOn(lines[n + 1], SP)[1] = <<"J", "M", "P", "Z">>
    /\ IsLabelToken(SplitOn(lines[n + 1], SP)[2])
    /\ SplitOn(lines[n + 1], SP)[3] = SplitOn(lines[n], SP)[2]

\* The lines are the tests of a switch over e with the given cases: a pair
\* for every case in order, all into one temporary, every pair with a label
\* of its own, then one JUMP to a label that is none of them, and no further
\* INQL, JMPZ or JUMP line.
AreSwitchTests(lines, e, cases) ==
    /\ Len(lines) >= 2 * Len(cases) + 1
    /\ \A i \in 1..Len(cases) :
           /\ IsSwitchTest(lines, 2 * i - 1, e, cases[i].Value)
           /\ SplitOn(lines[2 * i - 1], SP)[2] = SplitOn(lines[1], SP)[2]
           /\ \A k \in 1..(i - 1) :
                  SplitOn(lines[2 * k], SP)[2] # SplitOn(lines[2 * i], SP)[2]
    /\ Len(SplitOn(lines[2 * Len(cases) + 1], SP)) = 2
    /\ SplitOn(lines[2 * Len(cases) + 1], SP)[1] = <<"J", "U", "M", "P">>
    /\ IsLabelToken(SplitOn(lines[2 * Len(cases) + 1], SP)[2])
    /\ \A i \in 1..Len(cases) :
           SplitOn(lines[2 * i], SP)[2]
               # SplitOn(lines[2 * Len(cases) + 1], SP)[2]
    /\ \A n \in (2 * Len(cases) + 2)..Len(lines) :
           SplitOn(lines[n], SP)[1] \notin {<<"I", "N", "Q", "L">>,
                                            <<"J", "M", "P", "Z">>}

\* The lines of a text from line n on.
LinesFrom(text, n) == SubSeq(Split(text), n, Len(Split(text)))

\* The number of lines the code of an expression takes: every line ends with
\* a line feed, so Split gives one piece more than there are lines.
LinesOfExpression(node) ==
    Len(Split(CodegenExpression(Declared, node).c.output)) - 1

\* C16: the code of a switch with N cases holds exactly N pairs of an INQL
\* into one shared temporary and a JMPZ to the label of that case, and then
\* one JUMP to the default label, whatever the selector expression is.
C16_SwitchTests ==
    (pc = "generated" /\ TheStatement.kind = "Switch") =>
        AreSwitchTests(
            LinesFrom(quad, LinesOfExpression(TheStatement.Expression) + 1),
            CodegenExpression(Declared, TheStatement.Expression).exp.Code,
            TheStatement.Cases)

\* The same statement for the selectors that have code: every selector
\* without an undeclared variable, of type Integer or Float.
SwitchTestsOfGeneratedSelector ==
    (pc = "generated" /\ TheStatement.kind = "Switch"
        /\ ~CodegenExpression(Declared, TheStatement.Expression).exp.isNil)
        => C16_SwitchTests

\* A switch of several cases over an arithmetic selector was generated.
GeneratedSelectorSwitch ==
    /\ pc = "generated"
    /\ TheStatement.kind = "Switch"
    /\ TheStatement.Expression.kind = "Arithmetic"
    /\ ~CodegenExpression(Declared, TheStatement.Expression).exp.isNil
    /\ Len(TheStatement.Cases) = MaxSwitchCases

\* The value of the assignment as CodegenExpression gives it.
ValueOf(node) == CodegenExpression(Declared, node.Value).exp

\* The type of the value of an assignment after its static_cast, if any.
TypeAfterCast(node) ==
    IF node.CastType # Unknown THEN node.CastType ELSE ValueOf(node).Type

\* The assignment is rejected: its target is undeclared, or its target is
\* Integer and its value, after any static_cast, is Float.
IsRejected(node) ==
    \/ ~Exists(Declared, node.Variable)
    \/ /\ TypeOf(Declared, node.Variable) = Integer
       /\ ~ValueOf(node).isNil
       /\ TypeAfterCast(node) = Float

\* The diagnostic of a rejected assignment.
RejectionOf(node) ==
    IF ~Exists(Declared, node.Variable)
    THEN Error("undefined variable %s", node.Variable, node.Position)
    ELSE Error("cannot assign float value to int variable %s", node.Variable,
               node.Position)

HaltOnly == <<"H", "A", "L", "T", NL>>

\* A rejected assignment has its diagnostic recorded, and no line that
\* assigns (IASN or RASN) is written for it.
RejectedAssignsNothing ==
    (pc = "generated" /\ TheStatement.kind = "Assignment"
        /\ IsRejected(TheStatement)) =>
        /\ \E i \in 1..Len(genErrors) : genErrors[i] = RejectionOf(TheStatement)
        /\ \A n \in 1..Len(Split(quad)) :
               SplitOn(Split(quad)[n], SP)[1] \notin {Mnemonic.IASN, Mnemonic.RASN}

\* C19: when an assignment is rejected (undeclared target, or Integer target
\* and a value that is Float after any static_cast), the diagnostic is
\* recorded and the statement adds no instruction line to the output: the
\* text of the program is the final HALT alone.
C19_RejectedAssignmentAddsNoLine ==
    (pc = "generated" /\ TheStatement.kind = "Assignment"
        /\ IsRejected(TheStatement)) =>
        /\ \E i \in 1..Len(genErrors) : genErrors[i] = RejectionOf(TheStatement)
        /\ quad = HaltOnly

\* The code and the type of an operand: a declared variable, or a literal.
OperandOf(node) == CodegenExpression(Declared, node).exp

\* The tokens of line n.
TokensAt(lines, n) == SplitOn(lines[n], SP)

\* Token p of line n is a temporary that a line ITOR before line n writes
\* from the code given, and that no line before that ITOR names.
IsWidened(lines, n, p, code) ==
    \E m \in 1..(n - 1) :
        /\ TokensAt(lines, m)
               = <<Mnemonic.ITOR, TokensAt(lines, n)[p], code>>
        /\ IsTemporaryToken(TokensAt(lines, n)[p])
        /\ \A j \in 1..(m - 1) :
               \A q \in 1..Len(TokensAt(lines, j)) :
                   TokensAt(lines, j)[q] # TokensAt(lines, n)[p]

\* Token p of the Float instruction at line n stands for the operand: the
\* operand itself when it is Float, its conversion when it is Integer.
ConsumesAsFloat(lines, n, p, operand) ==
    IF operand.Type = Integer THEN IsWidened(lines, n, p, operand.Code)
    ELSE TokensAt(lines, n)[p] = operand.Code

\* The text has exactly one line with the opcode, and that line takes both
\* operands as given by consume.
OneOperation(lines, opcode, lhs, rhs, consume(_, _, _, _)) ==
    /\ Cardinality({n \in 1..Len(lines) : TokensAt(lines, n)[1] = opcode}) = 1
    /\ \A n \in 1..Len(lines) :
           TokensAt(lines, n)[1] = opcode =>
               /\ Len(TokensAt(lines, n)) = 4
               /\ consume(lines, n, 3, lhs)
               /\ consume(lines, n, 4, rhs)

\* An Integer operation takes the operands themselves.
ConsumesAsItIs(lines, n, p, operand) == TokensAt(lines, n)[p] = operand.Code

\* The operation of the operator on two operands that have code: a Float
\* operation on converted operands if either is Float, else an Integer one.
WidensOperands(lines, operator, lhs, rhs) ==
    IF lhs.Type = Float \/ rhs.Type = Float
    THEN OneOperation(lines, Opcode(operator, Float), lhs, rhs, ConsumesAsFloat)
    ELSE OneOperation(lines, Opcode(operator, Integer), lhs, rhs, ConsumesAsItIs)

\* The arithmetic expression or the comparison that the statement holds, if
\* it holds one: the value of an assignment or an output, the selector of a
\* switch, the condition of a while.
OperationOf(statement) ==
    CASE statement.kind \in {"Assignment", "Output"} -> statement.Value
      [] statement.kind = "Switch" -> statement.Expression
      [] statement.kind = "While" -> statement.Condition
      [] OTHER -> NilNode

HasOperation(statement) ==
    /\ OperationOf(statement).kind \in {"Arithmetic", "Compare"}
    /\ ~OperandOf(OperationOf(statement).LHS).isNil
    /\ ~OperandOf(OperationOf(statement).RHS).isNil

\* The type of an arithmetic expression is Float if either operand is Float,
\* and Integer otherwise; its operands are widened accordingly, and so are
\* those of a comparison.
OperandsAreWidened ==
    (pc = "generated" /\ HasOperation(TheStatement)) =>
        /\ WidensOperands(Split(quad), OperationOf(TheStatement).Operator,
                          OperandOf(OperationOf(TheStatement).LHS),
                          OperandOf(OperationOf(TheStatement).RHS))
        /\ OperationOf(TheStatement).kind = "Arithmetic" =>
               OperandOf(OperationOf(TheStatement)).Type
                   = IF Float \in {OperandOf(OperationOf(TheStatement).LHS).Type,
                                   OperandOf(OperationOf(TheStatement).RHS).Type}
                     THEN Float ELSE Integer

\* The code of the Integer value that an assignment hands on: the
\* temporary of its RTOI line when a static_cast made it Integer, else the
\* code of the value.
IntegerValueCode(lines, node) ==
    IF ValueOf(node).Type = Float
    THEN TokensAt(lines, CHOOSE m \in 1..Len(lines) :
                             TokensAt(lines, m)[1] = Mnemonic.RTOI)[2]
    ELSE ValueOf(node).Code

\* An assignment of an Integer value to a Float variable.
AssignsIntegerToFloat(node) ==
    /\ node.kind = "Assignment"
    /\ TypeOf(Declared, node.Variable) = Float
    /\ ~ValueOf(node).isNil
    /\ TypeAfterCast(node) = Integer

\* An Integer value assigned to a Float variable is converted, and RASN
\* takes the conversion.
AssignedValueIsWidened ==
    (pc = "generated" /\ AssignsIntegerToFloat(TheStatement)) =>
        /\ Cardinality({n \in 1..Len(Split(quad)) :
               TokensAt(Split(quad), n)[1] = Mnemonic.RASN}) = 1
        /\ \A n \in 1..Len(Split(quad)) :
               TokensAt(Split(quad), n)[1] = Mnemonic.RASN =>
                   /\ TokensAt(Split(quad), n)[2] = TheStatement.Variable
                   /\ IsWidened(Split(quad), n, 3,
                                IntegerValueCode(Split(quad), TheStatement))

\* C20: an arithmetic expression is Float if either operand is Float and
\* Integer otherwise; where an Integer value is consumed as a Float (as an
\* operand of a Float arithmetic operation or comparison, or as the value
\* assigned to a Float variable) a line ITOR writes it to a fresh temporary
\* before the consuming instruction, which takes that temporary.
C20_ImplicitWidening == OperandsAreWidened /\ AssignedValueIsWidened

\* HALT = x + 2.5 was generated: x is converted for the sum.
C20_Witness ==
    /\ pc = "generated"
    /\ TheStatement.kind = "Assignment"
    /\ TheStatement.Variable = haltName
    /\ TheStatement.CastType = Unknown
    /\ TheStatement.Value
           = ArithmeticExpression(VariableExpression(xName, NoPosition), Add,
                                  FloatLiteral(2500000, NoPosition), NoPosition)
    /\ quad = Line2(Mnemonic.ITOR, <<"_", "t", "2">>, xName)
                 \o Line3(Mnemonic.RADD, <<"_", "t", "1">>, <<"_", "t", "2">>,
                          FormatFloat(2500000))
                 \o Line2(Mnemonic.RASN, haltName, <<"_", "t", "1">>)
                 \o HaltOnly

\* x = 5 assigned to the Float variable: HALT = 5 was generated.
IntegerAssignedToFloat ==
    /\ pc = "generated"
    /\ AssignsIntegerToFloat(TheStatement)
    /\ TheStatement.Value = IntLiteral(5, NoPosition)
    /\ quad = Line2(Mnemonic.ITOR, <<"_", "t", "1">>, <<"5">>)
                 \o Line2(Mnemonic.RASN, haltName, <<"_", "t", "1">>)
                 \o HaltOnly

(***************************************************************************)
(* Properties of nested statements (SpecGen).                              *)
(***************************************************************************)
\* The statements a statement consists of, itself included.
RECURSIVE StatementsIn(_)
StatementsIn(node) ==
    {node} \cup
    CASE node.kind = "If" ->
             StatementsIn(node.IfBranch) \cup StatementsIn(node.ElseBranch)
      [] node.kind = "While" -> StatementsIn(node.Body)
      [] node.kind = "Switch" ->
             UNION {StatementsIn(node.DefaultCase[i]) :
                        i \in 1..Len(node.DefaultCase)}
             \cup UNION {UNION {StatementsIn(node.Cases[k].Statements[i]) :
                                    i \in 1..Len(node.Cases[k].Statements)} :
                             k \in 1..Len(node.Cases)}
      [] node.kind = "Block" ->
             UNION {StatementsIn(node.Statements[i]) :
                        i \in 1..Len(node.Statements)}
      [] OTHER -> {}

\* A label that no run of the generator allocates.
OuterLabel == <<"@", "0">>

\* The generator after the declarations, inside a construct whose end label
\* is OuterLabel, or outside every construct.
InsideOuter == [Declared EXCEPT !.breakStack = <<OuterLabel>>]

\* C21: CodegenStatement leaves the break-target stack as it found it, for
\* every statement of the program, nested ones included, called with an
\* empty stack or inside an enclosing construct; no guarded pop reads an
\* empty stack (which would end the run in a panic).
C21_BreakStackIsRestored ==
    pc = "generated" =>
        /\ Codegen(program).breakStack = <<>>
        /\ ~Codegen(program).panicked
        /\ \A node \in StatementsIn(program.StatementsBlock) :
               \A c \in {Declared, InsideOuter} :
                   /\ CodegenStatement(c, node).breakStack = c.breakStack
                   /\ ~CodegenStatement(c, node).panicked

\* A while was generated whose body holds a switch and a break.
C21_Witness ==
    /\ pc = "generated"
    /\ Len(Body) = 1
    /\ Body[1].kind = "While"
    /\ \E i \in 1..Len(Body[1].Body.Statements) :
           Body[1].Body.Statements[i].kind = "Switch"
    /\ \E i \in 1..Len(Body[1].Body.Statements) :
           Body[1].Body.Statements[i].kind = "Break"

\* The statements that a while or a switch holds as a list: the body of the
\* while, the default case of the switch.
InnerStatements(node) ==
    IF node.kind = "While" THEN node.Body.Statements ELSE node.DefaultCase

\* The while or switch without the i-th of these statements.
WithoutInner(node, i) ==
    IF node.kind = "While"
    THEN [node EXCEPT !.Body.Statements = RemoveAt(@, i)]
    ELSE [node EXCEPT !.DefaultCase = RemoveAt(@, i)]

\* The switch without the statements of its k-th case.
WithoutCaseStatements(node, k) ==
    [node EXCEPT !.Cases[k].Statements = <<>>]

\* The lines of the code of a statement generated inside an enclosing
\* construct.
LinesInsideOuter(node) == Split(CodegenStatement(InsideOuter, node).output)

\* The end label of a while or a switch: the label its last line defines.
EndLabelOf(lines) ==
    SubSeq(lines[Len(lines) - 1], 1, Len(lines[Len(lines) - 1]) - 1)

\* The lines are the lines of shorter with the one line put in somewhere.
IsWithLine(lines, shorter, line) ==
    \E k \in 0..Len(shorter) :
        lines = SubSeq(shorter, 1, k) \o <<line>>
                    \o SubSeq(shorter, k + 1, Len(shorter))

\* The breaks directly inside the while or switch add one line each, the
\* JUMP to the end label of that while or switch.
BreaksJumpToEnd(node) ==
    /\ \A i \in 1..Len(InnerStatements(node)) :
           InnerStatements(node)[i].kind = "Break" =>
               IsWithLine(LinesInsideOuter(node),
                          LinesInsideOuter(WithoutInner(node, i)),
                          Mnemonic.JUMP \o <<SP>>
                              \o EndLabelOf(LinesInsideOuter(node)))
    /\ node.kind = "Switch" =>
           \A k \in 1..Len(node.Cases) :
               node.Cases[k].Statements = <<BreakStatement(NoPosition)>> =>
                   IsWithLine(LinesInsideOuter(node),
                              LinesInsideOuter(WithoutCaseStatements(node, k)),
                              Mnemonic.JUMP \o <<SP>>
                                  \o EndLabelOf(LinesInsideOuter(node)))

\* The number of breaks in a statement, or in a list of statements, that
\* are not inside a while or a switch of it.
RECURSIVE BreaksOf(_)
RECURSIVE BreaksOfAll(_)
BreaksOf(node) ==
    CASE node.kind = "Break" -> 1
      [] node.kind = "If" -> BreaksOf(node.IfBranch) + BreaksOf(node.ElseBranch)
      [] node.kind = "Block" -> BreaksOfAll(node.Statements)
      [] OTHER -> 0

BreaksOfAll(statements) ==
    IF statements = <<>> THEN 0
    ELSE BreaksOf(Head(statements)) + BreaksOfAll(Tail(statements))

RECURSIVE BreaksOfCases(_)
BreaksOfCases(cases) ==
    IF cases = <<>> THEN 0
    ELSE BreaksOfAll(Head(cases).Statements) + BreaksOfCases(Tail(cases))

\* The breaks whose innermost while or switch is node.
OwnBreaks(node) ==
    IF node.kind = "While" THEN BreaksOf(node.Body)
    ELSE BreaksOfAll(node.DefaultCase) + BreaksOfCases(node.Cases)

\* The code of a while or a switch has as many jumps to its end label as it
\* has breaks of its own, those inside an if or a block included.
OneJumpPerBreak(node) ==
    Cardinality({n \in 1..Len(LinesInsideOuter(node)) :
                    LinesInsideOuter(node)[n]
                        = Mnemonic.JUMP \o <<SP>>
                              \o EndLabelOf(LinesInsideOuter(node))})
        = OwnBreaks(node)

\* C22: a break inside a while or a switch emits exactly one JUMP, to the
\* end label of the innermost while or switch around it, also when a nested
\* while or switch was completed before it in the same body.
C22_BreakJumpsToInnermostEnd ==
    pc = "generated" =>
        \A node \in StatementsIn(program.StatementsBlock) :
            node.kind \in {"While", "Switch"} =>
                BreaksJumpToEnd(node) /\ OneJumpPerBreak(node)

\* A while was generated whose body is a completed while followed by a
\* break.
C22_Witness ==
    /\ pc = "generated"
    /\ Len(Body) = 1
    /\ Body[1].kind = "While"
    /\ Len(Body[1].Body.Statements) = 2
    /\ Body[1].Body.Statements[1].kind = "While"
    /\ Body[1].Body.Statements[2].kind = "Break"
    /\ Matches(quad, <<"J", "U", "M", "P", " ", "@", "2", NL, "J", "U", "M",
                       "P", " ", "@", "1", NL>>) # <<>>

\* The number of lines of a text whose lines all end with a line feed.
LineCount(text) == Len(Split(text)) - 1

\* The number of lines of the condition of an if, of its two branches, and
\* the temporary that holds the condition.
ConditionLines(node) ==
    LineCount(CodegenBooleanExpression(InsideOuter, node.Condition).c.output)

ConditionName(node) ==
    CodegenBooleanExpression(InsideOuter, node.Condition).name

BranchLines(branch) == LineCount(CodegenStatement(InsideOuter, branch).output)

\* No line of lines[from..to] names the label.
IsFreshIn(lines, from, to, label) ==
    \A n \in from..to :
        /\ lines[n] # label \o <<":">>
        /\ \A q \in 1..Len(TokensAt(lines, n)) : TokensAt(lines, n)[q] # label

\* The lines of an if with an else branch: condition, JMPZ else cond, then
\* branch, JUMP end, else:, else branch, end:.
IsIfThenElse(lines, nc, nt, ne, cond) ==
    /\ Len(lines) = nc + nt + ne + 5
    /\ Len(TokensAt(lines, nc + 1)) = 3
    /\ TokensAt(lines, nc + 1)[1] = Mnemonic.JMPZ
    /\ IsLabelToken(TokensAt(lines, nc + 1)[2])
    /\ TokensAt(lines, nc + 1)[3] = cond
    /\ Len(TokensAt(lines, nc + nt + 2)) = 2
    /\ TokensAt(lines, nc + nt + 2)[1] = Mnemonic.JUMP
    /\ IsLabelToken(TokensAt(lines, nc + nt + 2)[2])
    /\ lines[nc + nt + 3] = TokensAt(lines, nc + 1)[2] \o <<":">>
    /\ lines[nc + nt + ne + 4] = TokensAt(lines, nc + nt + 2)[2] \o <<":">>
    /\ TokensAt(lines, nc + 1)[2] # TokensAt(lines, nc + nt + 2)[2]
    /\ IsFreshIn(lines, 1, nc, TokensAt(lines, nc + 1)[2])
    /\ IsFreshIn(lines, 1, nc + nt + 1, TokensAt(lines, nc + nt + 2)[2])
    /\ IsFreshIn(lines, nc + 2, nc + nt + 2, TokensAt(lines, nc + 1)[2])
    /\ IsFreshIn(lines, nc + nt + 4, nc + nt + ne + 3,
                 TokensAt(lines, nc + 1)[2])
    /\ IsFreshIn(lines, nc + nt + 3, nc + nt + ne + 3,
                 TokensAt(lines, nc + nt + 2)[2])

\* The lines of an if without an else branch: condition, JMPZ end cond, then
\* branch, end:, and no JUMP of the if itself.
IsIfThen(lines, nc, nt, cond) ==
    /\ Len(lines) = nc + nt + 3
    /\ Len(TokensAt(lines, nc + 1)) = 3
    /\ TokensAt(lines, nc + 1)[1] = Mnemonic.JMPZ
    /\ IsLabelToken(TokensAt(lines, nc + 1)[2])
    /\ TokensAt(lines, nc + 1)[3] = cond
    /\ lines[nc + nt + 2] = TokensAt(lines, nc + 1)[2] \o <<":">>
    /\ IsFreshIn(lines, 1, nc, TokensAt(lines, nc + 1)[2])
    /\ IsFreshIn(lines, nc + 2, nc + nt + 1, TokensAt(lines, nc + 1)[2])

\* C23: the lines of an if with an else branch are, in this order, the code
\* of the condition, JMPZ to the else label on the condition, the code of the
\* then branch, JUMP to the end label, the line of the else label, the code
\* of the else branch, the line of the end label, the two labels fresh and
\* distinct; without an else branch the JMPZ goes to the end label and the
\* if writes no JUMP.
C23_IfLinesInOrder ==
    pc = "generated" =>
        \A node \in StatementsIn(program.StatementsBlock) :
            node.kind = "If" =>
                IF node.ElseBranch # NilNode
                THEN IsIfThenElse(LinesInsideOuter(node), ConditionLines(node),
                                  BranchLines(node.IfBranch),
                                  BranchLines(node.ElseBranch),
                                  ConditionName(node))
                ELSE IsIfThen(LinesInsideOuter(node), ConditionLines(node),
                              BranchLines(node.IfBranch), ConditionName(node))

\* An if with an else branch was generated whose then branch holds a while.
C23_Witness ==
    /\ pc = "generated"
    /\ Len(Body) = 1
    /\ Body[1].kind = "If"
    /\ Body[1].ElseBranch # NilNode
    /\ \E i \in 1..Len(Body[1].IfBranch.Statements) :
           Body[1].IfBranch.Statements[i].kind = "While"
    /\ Matches(quad, <<"J", "M", "P", "Z", " ", "@", "2", " ", "_", "t", "1",
                       NL>>) # <<>>

\* An if without an else branch was generated.
IfWithoutElse ==
    /\ pc = "generated"
    /\ Len(Body) = 1
    /\ Body[1].kind = "If"
    /\ Body[1].ElseBranch = NilNode
    /\ Body[1].IfBranch.Statements # <<>>

(***************************************************************************)
(* What the generated instructions compute.  The opcodes are those of the  *)
(* comments of the generator: IADD adds, IMLT multiplies, ISUB subtracts,  *)
(* and a comparison writes 1 when it holds and 0 when it does not.  A      *)
(* Float value is kept in millionths, as a float literal is.               *)
(***************************************************************************)
Million == 1000000

\* The values the variables x (Integer) and HALT (Float) may hold.
XValues == {4, 5, 6}
HaltValues == {2000000, 2500000, 3000000}

Environments ==
    {(xName :> vx) @@ (haltName :> vh) : vx \in XValues, vh \in HaltValues}

\* The position of the point in a token, 0 when it has none.
PointOf(tok) ==
    IF \E i \in 1..Len(tok) : tok[i] = "."
    THEN CHOOSE i \in 1..Len(tok) : tok[i] = "." ELSE 0

\* The value of an operand token: a variable or a temporary of env, an
\* integer literal, or a float literal with six decimals.
ValueOfToken(env, tok) ==
    IF tok \in DOMAIN env THEN env[tok]
    ELSE IF PointOf(tok) = 0 THEN DigitsValue(tok)
    ELSE DigitsValue(SubSeq(tok, 1, PointOf(tok) - 1)) * Million
             + DigitsValue(SubSeq(tok, PointOf(tok) + 1, Len(tok)))

Truth(b) == IF b THEN 1 ELSE 0

\* The value that an instruction with two sources writes.
Computed(op, a, b) ==
    CASE op \in {Mnemonic.IADD, Mnemonic.RADD} -> a + b
      [] op \in {Mnemonic.ISUB, Mnemonic.RSUB} -> a - b
      [] op = Mnemonic.IMLT -> a * b
      [] op \in {Mnemonic.IEQL, Mnemonic.REQL} -> Truth(a = b)
      [] op \in {Mnemonic.INQL, Mnemonic.RNQL} -> Truth(a # b)
      [] op \in {Mnemonic.IGRT, Mnemonic.RGRT} -> Truth(a > b)
      [] op \in {Mnemonic.ILSS, Mnemonic.RLSS} -> Truth(a < b)

ComputingOpcodes ==
    {Mnemonic.IADD, Mnemonic.RADD, Mnemonic.ISUB, Mnemonic.RSUB, Mnemonic.IMLT,
     Mnemonic.IEQL, Mnemonic.REQL, Mnemonic.INQL, Mnemonic.RNQL, Mnemonic.IGRT,
     Mnemonic.RGRT, Mnemonic.ILSS, Mnemonic.RLSS}

\* The environment after one line: an instruction with two sources, an
\* ITOR, or a line that writes no value.
Executed(env, t) ==
    IF t[1] \in ComputingOpcodes THEN
        (t[2] :> Computed(t[1], ValueOfToken(env, t[3]), ValueOfToken(env, t[4])))
            @@ env
    ELSE IF t[1] = Mnemonic.ITOR THEN
        (t[2] :> ValueOfToken(env, t[3]) * Million) @@ env
    ELSE env

\* The environment after the lines i, i + 1, ... of a straight piece of code.
RECURSIVE Run(_, _, _)
Run(lines, i, env) ==
    IF i > Len(lines) THEN env
    ELSE Run(lines, i + 1, Executed(env, TokensAt(lines, i)))

\* The value of an operand (a variable or a literal that has code) as a
\* Float, in millionths.
NumberOf(env, node) ==
    IF OperandOf(node).Type = Integer
    THEN ValueOfToken(env, OperandOf(node).Code) * Million
    ELSE ValueOfToken(env, OperandOf(node).Code)

\* Whether a comparison of two operands holds.
Holds(env, node) ==
    CASE node.Operator = EqualTo ->
             NumberOf(env, node.LHS) = NumberOf(env, node.RHS)
      [] node.Operator = NotEqualTo ->
             NumberOf(env, node.LHS) # NumberOf(env, node.RHS)
      [] node.Operator = GreaterThan ->
             NumberOf(env, node.LHS) > NumberOf(env, node.RHS)
      [] node.Operator = LessThan ->
             NumberOf(env, node.LHS) < NumberOf(env, node.RHS)
      [] node.Operator = GreaterThanOrEqualTo ->
             NumberOf(env, node.LHS) >= NumberOf(env, node.RHS)
      [] node.Operator = LessThenOrEqualTo ->
             NumberOf(env, node.LHS) <= NumberOf(env, node.RHS)

\* The truth value of a boolean expression.
RECURSIVE IsTrue(_, _)
IsTrue(env, node) ==
    CASE node.kind = "Or" -> IsTrue(env, node.LHS) \/ IsTrue(env, node.RHS)
      [] node.kind = "And" -> IsTrue(env, node.LHS) /\ IsTrue(env, node.RHS)
      [] node.kind = "Not" -> ~IsTrue(env, node.Value)
      [] node.kind = "Compare" -> Holds(env, node)

\* The code of a boolean expression, and the temporary it returns.
BooleanCode(node) == CodegenBooleanExpression(Declared, node)

\* The value of that temporary after the code ran from env.
BooleanResult(env, node) ==
    Run(Split(BooleanCode(node).c.output), 1, env)[BooleanCode(node).name]

\* The connectives of a boolean expression: it is no single comparison.
IsConnective(node) == node.kind \in {"Or", "And", "Not"}

\* C24: the temporary that CodegenBooleanExpression returns for an Or, an
\* And or a Not holds 0 or 1 after the emitted instructions ran, and holds 1
\* exactly when the expression is true: Or is IADD and IGRT against 0, And is
\* IMLT, Not is ISUB from 1.
C24_BooleanValue ==
    (pc = "generated" /\ TheStatement.kind = "If"
        /\ IsConnective(TheStatement.Condition)
        /\ BooleanCode(TheStatement.Condition).name # <<>>) =>
        \A env \in Environments :
            /\ BooleanResult(env, TheStatement.Condition) \in {0, 1}
            /\ BooleanResult(env, TheStatement.Condition) = 1
                   <=> IsTrue(env, TheStatement.Condition)

\* !(x < 5) && (x == 5 || HALT < 2.5) was generated.
C24_Witness ==
    /\ pc = "generated"
    /\ TheStatement.kind = "If"
    /\ TheStatement.Condition.kind = "And"
    /\ TheStatement.Condition.LHS.kind = "Not"
    /\ TheStatement.Condition.RHS.kind = "Or"
    /\ BooleanCode(TheStatement.Condition).name = <<"_", "t", "6">>
    /\ Matches(quad, Line3(Mnemonic.IGRT, <<"_", "t", "5">>, <<"_", "t", "5">>,
                           <<"0">>)) # <<>>
    /\ Matches(quad, Line3(Mnemonic.IMLT, <<"_", "t", "6">>, <<"_", "t", "2">>,
                           <<"_", "t", "5">>)) # <<>>

\* x == y || x > y for >=, x == y || x < y for <=, written out.
RewrittenComparison(node) ==
    OrBooleanExpression(
        CompareBooleanExpression(node.LHS, EqualTo, node.RHS, NoPosition),
        CompareBooleanExpression(node.LHS,
            IF node.Operator = GreaterThanOrEqualTo THEN GreaterThan ELSE LessThan,
            node.RHS, NoPosition),
        NoPosition)

IsOrderedComparison(node) ==
    /\ node.kind = "Compare"
    /\ node.Operator \in {GreaterThanOrEqualTo, LessThenOrEqualTo}

\* C25: a comparison with >= generates exactly the code of the Or of the
\* comparisons with == and with > of the same operands, one with <= that of
\* the Or of == and <; for all values of the operands the temporary it
\* returns holds 1 when lhs >= rhs (lhs <= rhs) and 0 when not.
C25_OrderedComparison ==
    (pc = "generated" /\ TheStatement.kind = "If"
        /\ IsOrderedComparison(TheStatement.Condition)) =>
        /\ BooleanCode(TheStatement.Condition)
               = BooleanCode(RewrittenComparison(TheStatement.Condition))
        /\ BooleanCode(TheStatement.Condition).name # <<>> =>
               \A env \in Environments :
                   BooleanResult(env, TheStatement.Condition)
                       = Truth(Holds(env, TheStatement.Condition))

\* x >= 2.5 was generated: x is converted for both comparisons.
C25_Witness ==
    /\ pc = "generated"
    /\ TheStatement.kind = "If"
    /\ TheStatement.Condition
           = CompareBooleanExpression(VariableExpression(xName, NoPosition),
                                      GreaterThanOrEqualTo,
                                      FloatLiteral(2500000, NoPosition),
                                      NoPosition)
    /\ BooleanCode(TheStatement.Condition).c.output
           = Line2(Mnemonic.ITOR, <<"_", "t", "1">>, xName)
               \o Line3(Mnemonic.REQL, <<"_", "t", "2">>, <<"_", "t", "1">>,
                        FormatFloat(2500000))
               \o Line2(Mnemonic.ITOR, <<"_", "t", "3">>, xName)
               \o Line3(Mnemonic.RGRT, <<"_", "t", "4">>, <<"_", "t", "3">>,
                        FormatFloat(2500000))
               \o Line3(Mnemonic.IADD, <<"_", "t", "5">>, <<"_", "t", "2">>,
                        <<"_", "t", "4">>)
               \o Line3(Mnemonic.IGRT, <<"_", "t", "5">>, <<"_", "t", "5">>,
                        <<"0">>)

\* The names of the declarations in the order CodegenProgram visits them,
\* each with the type and the position of its declaration.
RECURSIVE DeclaredNames(_)
DeclaredNames(declarations) ==
    IF declarations = <<>> THEN <<>>
    ELSE [i \in 1..Len(Head(declarations).Names) |->
              [name |-> Head(declarations).Names[i],
               type |-> Head(declarations).Type,
               pos |-> Head(declarations).Position]]
         \o DeclaredNames(Tail(declarations))

\* The occurrences that repeat an earlier name, in order.
RECURSIVE Repeated(_, _)
Repeated(names, k) ==
    IF k > Len(names) THEN <<>>
    ELSE (IF \E j \in 1..(k - 1) : names[j].name = names[k].name
          THEN <<Error("variable %s already defined", names[k].name,
                       names[k].pos)>>
          ELSE <<>>) \o Repeated(names, k + 1)

IsAlreadyDefined(e) == e.Message.fmt = "variable %s already defined"

\* The type of the first declaration of a name.
FirstType(names, name) ==
    names[CHOOSE k \in 1..Len(names) :
              /\ names[k].name = name
              /\ \A j \in 1..(k - 1) : names[j].name # name].type

\* C26: the symbol table holds every declared name with the type of its
\* first declaration; every repeated occurrence of a name adds exactly one
\* diagnostic "variable <name> already defined", and a name seen for the
\* first time adds none.
C26_FirstDeclarationWins ==
    pc = "generated" =>
        /\ DOMAIN Codegen(program).Variables
               = {DeclaredNames(program.Declarations)[k].name :
                      k \in 1..Len(DeclaredNames(program.Declarations))}
        /\ \A name \in DOMAIN Codegen(program).Variables :
               Codegen(program).Variables[name]
                   = FirstType(DeclaredNames(program.Declarations), name)
        /\ SelectSeq(genErrors, IsAlreadyDefined)
               = Repeated(DeclaredNames(program.Declarations), 1)

\* x, x: float; x, HALT: int; was generated: x stays Float, HALT is Integer,
\* and x is reported twice.
C26_Witness ==
    /\ pc = "generated"
    /\ program.Declarations
           = <<Declaration(<<xName, xName>>, Float, Position(1, 0)),
               Declaration(<<xName, haltName>>, Integer, Position(2, 0))>>
    /\ genErrors = <<Error("variable %s already defined", xName, Position(1, 0)),
                     Error("variable %s already defined", xName, Position(2, 0))>>
    /\ quad = Line1(Mnemonic.RPRT, xName) \o HaltOnly

\* A JMPZ line names a label and the operand it tests.
JumpsOnOperand(words) ==
    words[1] = Mnemonic.JMPZ => (Len(words) = 3 /\ words[3] # <<>>)

\* C27: when the condition of an if or a while could not be generated (an
\* undefined variable in it), the statement writes no JMPZ with an empty
\* condition operand: every JMPZ line of the text names the operand it tests.
C27_NoJumpOnMissingCondition ==
    pc = "generated" =>
        \A n \in 1..Len(Split(quad)) :
            JumpsOnOperand(TokensAt(Split(quad), n))

\* C28: the panic of codegenCastExpression is never reached: the cast is
\* called with the target Integer or Float only, also for an assignment whose
\* CastType is Unknown and for a variable declared with Unknown type.
C28_InvalidTypeIsUnreachable ==
    /\ pc # "panic"
    /\ ~Codegen(program).panicked

\* With x of Unknown type, HALT = static_cast<Unknown>(x + HALT) was
\* generated: x is converted for the sum and nothing is cast to Unknown.
C28_Witness ==
    /\ pc = "generated"
    /\ program.Declarations = UnknownDeclarations
    /\ TheStatement.Statements
           = <<AssignmentStatement(
                   haltName,
                   ArithmeticExpression(VariableExpression(xName, NoPosition),
                                        Add,
                                        VariableExpression(haltName, NoPosition),
                                        NoPosition),
                   Unknown, NoPosition)>>
    /\ quad = Line2(Mnemonic.ITOR, <<"_", "t", "2">>, xName)
                 \o Line3(Mnemonic.RADD, <<"_", "t", "1">>, <<"_", "t", "2">>,
                          haltName)
                 \o Line2(Mnemonic.RASN, haltName, <<"_", "t", "1">>)
                 \o HaltOnly
    /\ genErrors = <<>>

\* The numbers of the lines that define the label.
DefinitionsOf(lines, label) ==
    {n \in 1..Len(lines) : lines[n] = label \o <<":">>}

\* The labels that a JMPZ or a JUMP of the lines names.
JumpTargets(lines) ==
    {TokensAt(lines, n)[2] :
        n \in {m \in 1..Len(lines) :
                   TokensAt(lines, m)[1] \in {Mnemonic.JMPZ, Mnemonic.JUMP}}}

\* The labels that a line of the lines defines.
DefinedLabels(lines) ==
    {SubSeq(lines[n], 1, Len(lines[n]) - 1) :
        n \in {m \in 1..Len(lines) : IsLabelLine(lines[m])}}

\* C29: in the text of a program every label that a JMPZ or a JUMP names has
\* exactly one definition line, and no label is defined twice; the jumps of
\* break statements and the labels of a switch without cases included.
C29_LabelsAreDefinedOnce ==
    pc = "generated" =>
        /\ \A label \in JumpTargets(Split(quad)) :
               /\ IsLabelToken(label)
               /\ Cardinality(DefinitionsOf(Split(quad), label)) = 1
        /\ \A label \in DefinedLabels(Split(quad)) :
               Cardinality(DefinitionsOf(Split(quad), label)) = 1

\* { { while (x < 5) { switch (x) { default: break; } break; } } break; } was
\* generated: the first break leaves the switch, the second the loop, and
\* the third is reported.
C29_Witness ==
    /\ pc = "generated"
    /\ Body[1] = StatementsBlock(<<BreakInEmptySwitch>>, NoPosition)
    /\ Len(genErrors) = 1
    /\ Split(quad)
           = <<<<"@", "1", ":">>,
               <<"I", "L", "S", "S", SP, "_", "t", "1", SP, "x", SP, "5">>,
               <<"J", "M", "P", "Z", SP, "@", "2", SP, "_", "t", "1">>,
               <<"J", "U", "M", "P", SP, "@", "3">>,
               <<"@", "3", ":">>,
               <<"J", "U", "M", "P", SP, "@", "4">>,
               <<"@", "4", ":">>,
               <<"J", "U", "M", "P", SP, "@", "2">>,
               <<"J", "U", "M", "P", SP, "@", "1">>,
               <<"@", "2", ":">>,
               <<"H", "A", "L", "T">>,
               <<>> >>

\* A second RemoveLabels changes nothing, and the first took away the label
\* lines and no other line.
RemovedOnce ==
    /\ RemoveLabels(final) = final
    /\ LineCount(final) = LineCount(quad) - Len(LabelLines(Split(quad)))

\* C30: RemoveLabels is idempotent on generated code, and its result has as
\* many lines as the generated text has lines that are not label lines.
C30_RemoveLabelsIsIdempotent == pc = "removed" => RemovedOnce

\* The same for the texts with fewer than ten labels, where no label is the
\* beginning of another one.
IdempotentBelowTenLabels ==
    (pc = "removed" /\ Codegen(program).labelIndex < 10) => RemovedOnce

\* RemoveLabels ran on a text with several labels, fewer than ten.
SeveralLabelsRemoved ==
    /\ pc = "removed"
    /\ Codegen(program).labelIndex \in 4..9
    /\ final # quad

(***************************************************************************)
(* Properties of the scanner (SpecScan).                                   *)
(***************************************************************************)
IsIdentifierChar(ch) == isLetter(ch) \/ isDigit(ch) \/ ch = "_"

\* A letter followed by letters, digits and underscores.
IsIdentifierShaped(lexeme) ==
    /\ lexeme # <<>>
    /\ isLetter(lexeme[1])
    /\ \A i \in 1..Len(lexeme) : IsIdentifierChar(lexeme[i])

\* The longest prefix of text made of identifier characters.
IdentifierPrefix(text) ==
    SubSeq(text, 1,
           Cardinality({k \in 1..Len(text) :
                           \A j \in 1..k : IsIdentifierChar(text[j])}))

KeywordSpellings == {k.Lexeme : k \in Keywords}

\* C10: of the identifier-shaped lexemes Scan returns, a keyword
\* (static_cast included) has its keyword's type, and any other one is an ID
\* exactly when it has at most 9 characters and no underscore, and ILLEGAL
\* otherwise.
C10_IdentifierKind ==
    \A i \in 1..Len(tokens) :
        LET tok == tokens[i] IN
        (IsIdentifierShaped(tok.Lexeme) /\ tok.TokenType # "EOF") =>
            IF tok.Lexeme \in KeywordSpellings
            THEN \E k \in Keywords :
                     k.Lexeme = tok.Lexeme /\ k.TokenType = tok.TokenType
            ELSE /\ tok.TokenType \in {"ID", "ILLEGAL"}
                 /\ tok.TokenType = "ID" <=>
                        /\ Len(tok.Lexeme) <= 9
                        /\ \A j \in 1..Len(tok.Lexeme) : tok.Lexeme[j] # "_"

\* The first copy of the scanner takes the whole identifier-shaped prefix of
\* a text that starts with a letter as the lexeme of the first token.
ScansWholeIdentifier ==
    (tokens # <<>> /\ scanner.copy = "scanner" /\ src # <<>> /\ isLetter(src[1])) =>
        tokens[1].Lexeme = IdentifierPrefix(src)

\* A lexeme of ten letters was scanned as ILLEGAL.
C10_Witness ==
    /\ Len(tokens) = 2
    /\ tokens[1].TokenType = "ILLEGAL"
    /\ tokens[1].Lexeme = [i \in 1..10 |-> "a"]
    /\ tokens[2].TokenType = "SEMICOLON"

\* What the next call of read returns: the character and its position.
NextRead(s) == curr(read(s))

\* The first token of a text that starts with a letter, as the scanner copy
\* returns it: its lexeme is the longest run of letters, digits and
\* underscores, and the character after the run is the next one read.
IdentifierRunOf(copy) ==
    (scanner.copy = copy /\ tokens # <<>> /\ src # <<>> /\ isLetter(src[1])) =>
        /\ tokens[1].Lexeme = IdentifierPrefix(src)
        /\ (Len(tokens) = 1 /\ Len(IdentifierPrefix(src)) < Len(src)) =>
               NextRead(scanner) =
                   [ch |-> src[Len(IdentifierPrefix(src)) + 1],
                    position |-> Position(0, Len(IdentifierPrefix(src)))]

\* C11: when Scan starts at a letter, the lexeme it returns is the maximal run
\* of the form [A-Za-z][A-Za-z0-9_]*, and the first character that is not a
\* letter, digit or underscore is pushed back and begins the next token; in
\* both copies of the scanner.
C11_MaximalIdentifierRun == \A copy \in ScannerCopies : IdentifierRunOf(copy)

\* The copy of the scanner in part_000 does scan the maximal run.
MaximalRunInScanner == IdentifierRunOf("scanner")

\* C12: once Scan has returned an EOF token, every later call returns a token
\* of kind EOF with the lexeme "EOF" and the position of that first EOF token.
C12_EofTokenIsStable ==
    \A i \in 1..Len(tokens) : \A j \in i..Len(tokens) :
        tokens[i].TokenType = "EOF" =>
            /\ tokens[j].TokenType = "EOF"
            /\ tokens[j].Lexeme = <<"E", "O", "F">>
            /\ tokens[j].Position = tokens[i].Position

\* The kind and the lexeme do stay: after an EOF token come EOF tokens only.
EofTokenRepeats ==
    \A i \in 1..Len(tokens) : \A j \in i..Len(tokens) :
        tokens[i].TokenType = "EOF" =>
            /\ tokens[j].TokenType = "EOF"
            /\ tokens[j].Lexeme = <<"E", "O", "F">>

\* The position stays from the second EOF token on, and the first one is at
\* most one column before it.
EofPositionSettles ==
    \A i \in 1..Len(tokens) : \A j \in (i + 1)..Len(tokens) :
        tokens[i].TokenType = "EOF" =>
            /\ tokens[j].Position.Line = tokens[i].Position.Line
            /\ tokens[j].Position.Column - tokens[i].Position.Column \in {0, 1}
            /\ (i > 1 /\ tokens[i - 1].TokenType = "EOF") =>
                   tokens[j].Position = tokens[i].Position

\* The operators of two characters and their token types.
TwoCharacterOperators ==
    {[Lexeme |-> <<">", "=">>, TokenType |-> "RELOP"],
     [Lexeme |-> <<"<", "=">>, TokenType |-> "RELOP"],
     [Lexeme |-> <<"=", "=">>, TokenType |-> "RELOP"],
     [Lexeme |-> <<"!", "=">>, TokenType |-> "RELOP"],
     [Lexeme |-> <<"&", "&">>, TokenType |-> "AND"],
     [Lexeme |-> <<"|", "|">>, TokenType |-> "OR"]}

\* The token type of one of the characters > < = ! & | by itself.
LoneOperatorType(ch) ==
    CASE ch \in {">", "<"} -> "RELOP"
      [] ch = "=" -> "EQUALS"
      [] ch = "!" -> "NOT"
      [] ch \in {"&", "|"} -> "ILLEGAL"

\* What read returns at index i of a one-line text: the character there, or
\* the end of the text.
CharacterAt(text, i) ==
    [ch |-> IF i <= Len(text) THEN text[i] ELSE eof,
     position |-> Position(0, i - 1)]

\* The first two characters of a text, fewer when it is shorter.
FirstTwo(text) == SubSeq(text, 1, IF Len(text) < 2 THEN Len(text) ELSE 2)

\* C13: at one of the characters > < = ! & | Scan reads one more character.
\* When the two make >=, <=, ==, !=, && or || they are one token and the next
\* character read is the third one; otherwise the token is the first
\* character alone (RELOP for > and <, EQUALS for =, NOT for !, ILLEGAL for &
\* and |) and the next character read is the second one.
C13_OperatorLookahead ==
    (tokens # <<>> /\ src # <<>> /\ src[1] \in OperatorFirsts) =>
        IF \E op \in TwoCharacterOperators : op.Lexeme = FirstTwo(src)
        THEN /\ \E op \in TwoCharacterOperators :
                    tokens[1] = Token(op.TokenType, op.Lexeme, NoPosition)
                        /\ op.Lexeme = FirstTwo(src)
             /\ Len(tokens) = 1 => NextRead(scanner) = CharacterAt(src, 3)
        ELSE /\ tokens[1] = Token(LoneOperatorType(src[1]), <<src[1]>>, NoPosition)
             /\ Len(tokens) = 1 => NextRead(scanner) = CharacterAt(src, 2)

\* The text "<|=" was scanned as RELOP, ILLEGAL, EQUALS: each lookahead was
\* pushed back and began the next token.
C13_Witness ==
    /\ src = <<"<", "|", "=">>
    /\ Len(tokens) = 3
    /\ tokens[1] = Token("RELOP", <<"<">>, NoPosition)
    /\ tokens[2] = Token("ILLEGAL", <<"|">>, Position(0, 1))
    /\ tokens[3] = Token("EQUALS", <<"=">>, Position(0, 2))

\* The indices k after the opening "/*" of a text where "*/" starts.
CommentEnds(text) ==
    {k \in 3..(Len(text) - 1) : text[k] = "*" /\ text[k + 1] = "/"}

\* The first of them.
FirstCommentEnd(text) ==
    CHOOSE k \in CommentEnds(text) : \A j \in CommentEnds(text) : k <= j

\* tok found n columns further to the right.
ShiftedBy(tok, n) == [tok EXCEPT !.Position.Column = @ + n]

\* The first token of the part of text after index k, scanned on its own.
FirstTokenAfter(text, k, copy) ==
    ShiftedBy(Scan(NewScanner(SubSeq(text, k + 1, Len(text)), copy)).tok, k)

\* C14: a comment opened by "/*" is closed by the first "*/" that follows,
\* however many stars come before the slash or stand elsewhere in it, and it
\* produces no token: the token returned is the one that follows the comment.
\* A comment that is not closed before the end of the text gives an ILLEGAL
\* token.
C14_CommentClosesAtFirstEnd ==
    (tokens # <<>> /\ Len(src) >= 2 /\ SubSeq(src, 1, 2) = <<"/", "*">>) =>
        IF CommentEnds(src) # {}
        THEN tokens[1] =
                 FirstTokenAfter(src, FirstCommentEnd(src) + 1, scanner.copy)
        ELSE tokens[1] = Token("ILLEGAL", <<>>, NoPosition)

\* After the comment of "/***/a", closed by a run of stars and a slash, the
\* identifier a was returned.
C14_Witness ==
    /\ src = <<"/", "*", "*", "*", "/", "a">>
    /\ Len(tokens) = 2
    /\ tokens[1] = Token("ID", <<"a">>, Position(0, 5))
    /\ tokens[2].TokenType = "EOF"

(***************************************************************************)
(* Properties of Parse and of main (SpecCompile).                          *)
(***************************************************************************)
\* Parse has returned in this run of main.
Parsed == mode = "compile" /\ pc \in {"parsed", "generated", "returned"}

Statements == program.StatementsBlock.Statements

\* C3: for every source text Parse terminates and returns a Program with its
\* diagnostics; no run of main ends inside Parse with the stack exhausted by
\* a parsing routine that recurses without consuming a token.
C3_ParseReturns == pc # "overflow"

\* C5: a source text the grammar derives is parsed with zero diagnostics, and
\* "x: int; { output(x); }" gives one Declaration of x as Integer and a body
\* of one Output statement whose value is the variable x.
C5_GrammarSourceParses ==
    (Parsed /\ src \in GrammarSources) =>
        /\ parseErrors = <<>>
        /\ src = OutputSource =>
            /\ Len(program.Declarations) = 1
            /\ program.Declarations[1].Names = << <<"x">> >>
            /\ program.Declarations[1].Type = Integer
            /\ Len(Statements) = 1
            /\ Statements[1].kind = "Output"
            /\ Statements[1].Value.kind = "Variable"
            /\ Statements[1].Value.Variable = <<"x">>

\* C6: for "x: int { output(x); }", which lacks only the ';' after the type,
\* Parse records exactly one diagnostic, at the token found in place of the
\* ';' (the '{'), and the Program still has the declaration and the block
\* with its statement.
C6_OneDiagnosticForMissingSemicolon ==
    (Parsed /\ src = MissingSemicolonSource) =>
        /\ Len(parseErrors) = 1
        /\ parseErrors[1].Pos = Position(0, 7)
        /\ Len(program.Declarations) = 1
        /\ program.Declarations[1].Names = << <<"x">> >>
        /\ Len(Statements) = 1
        /\ Statements[1].kind = "Output"

\* The same text with input(x) in place of output(x), read by the scanner of
\* the scanner file: the missing ';' alone costs one diagnostic, at the '{',
\* and the rest is parsed.
MissingSemicolonAlone ==
    (Parsed /\ src = MissingSemicolonInputSource /\ scanner.copy = "scanner") =>
        /\ Len(parseErrors) = 1
        /\ parseErrors[1].Pos = Position(0, 7)
        /\ parseErrors[1].Found = <<"{">>
        /\ Len(program.Declarations) = 1
        /\ Len(Statements) = 1
        /\ Statements[1] = InputStatement(<<"x">>, Position(0, 14))

\* C7: compiling "x: int; { x = 5; output(x); }" gives no diagnostic in
\* either phase and exactly the three lines IASN x 5, IPRT x, HALT.
C7_AssignAndOutputCompile ==
    (mode = "compile" /\ pc = "returned" /\ src = AssignOutputSource) =>
        /\ parseErrors = <<>>
        /\ genErrors = <<>>
        /\ Split(RemoveLabels(quad)) =
               << <<"I", "A", "S", "N", SP, "x", SP, "5">>,
                  <<"I", "P", "R", "T", SP, "x">>,
                  <<"H", "A", "L", "T">>,
                  <<>> >>

\* C9: main writes the .qud file exactly when it ran both phases and neither
\* left a diagnostic; with a diagnostic of either phase, or when main ended
\* before its last statement, nothing is written.
C9_WritesIffNoDiagnostics ==
    mode = "compile" =>
        /\ outFile.written =>
               pc = "returned" /\ parseErrors = <<>> /\ genErrors = <<>>
        /\ (pc = "returned" /\ parseErrors = <<>> /\ genErrors = <<>>) =>
               /\ outFile.written
               /\ outFile.name = OutfileOf(args.infile)
               /\ outFile.content = RemoveLabels(quad) \o <<NL>> \o Signature

\* main has returned from "x: int; { input(x); }" with the file written.
C9_Witness ==
    /\ mode = "compile" /\ pc = "returned"
    /\ src = InputSource
    /\ outFile.written
    /\ outFile.name = <<"p", ".", "q", "u", "d">>
    /\ Split(outFile.content) =
           << <<"I", "I", "N", "P", SP, "x">>, <<"H", "A", "L", "T">>, <<>>,
              Signature >>

\* main has returned with a diagnostic of the code generator only, and
\* without a file.
NothingWrittenOnCodegenError ==
    ~(/\ mode = "compile" /\ pc = "returned"
      /\ parseErrors = <<>> /\ genErrors # <<>>
      /\ ~outFile.written)

\* A parser over the text from its k-th character on: every token of the
\* text is the lookahead of one of them.
ParserAt(k) == NewParser(NewScanner(SubSeq(src, k, Len(src)), scanner.copy))

\* The diagnostic that names the lookahead of p as the unexpected token.
LookaheadError(p, expected) ==
    newError(p.lookahead.Lexeme, expected, p.lookahead.Position)

\* An ordinary expectation site (here the one of ';') reports the lookahead
\* it found.
ExpectReportsLookahead ==
    Parsed =>
        \A k \in 1..(Len(src) + 1) :
            ParserAt(k).lookahead.TokenType # "SEMICOLON" =>
                expect(ParserAt(k), {"SEMICOLON"}, <<";">>).p.Errors
                    = <<LookaheadError(ParserAt(k), <<";">>)>>

\* ParseType reports the lookahead it found when that is neither int nor
\* float.
ParseTypeReportsLookahead ==
    Parsed =>
        \A k \in 1..(Len(src) + 1) :
            ParserAt(k).lookahead.TokenType \notin {"INT", "FLOAT"} =>
                ParseType(ParserAt(k)).p.Errors
                    = <<LookaheadError(ParserAt(k), <<"int", "float">>)>>

\* The diagnostic of the final EOF check names a token of the text, the
\* texts being of one line: its lexeme, at the column where it starts.
EofCheckReportsLookahead ==
    Parsed =>
        \A i \in 1..Len(parseErrors) :
            parseErrors[i].Expected = <<"EOF">> =>
                \E k \in 1..(Len(src) + 1) :
                    /\ ParserAt(k).lookahead.Position = Position(0, 0)
                    /\ ParserAt(k).lookahead.Lexeme = parseErrors[i].Found
                    /\ parseErrors[i].Pos = Position(0, k - 1)

\* C17: at every place where the parser expects a token kind and the
\* lookahead is of another kind, the diagnostic carries the lexeme and the
\* position of that lookahead: at the ordinary sites, in ParseType (which
\* skips a token) and in the final EOF check of ParseProgram.
C17_DiagnosticNamesLookahead ==
    /\ ExpectReportsLookahead
    /\ ParseTypeReportsLookahead
    /\ EofCheckReportsLookahead

\* addError on a list of diagnostics with no two at one position: the list
\* is kept as it is when it has an entry at the position of e, and gets e as
\* its last entry otherwise.
AddsOnlyNewPositions(errors, e) ==
    addError([Errors |-> errors], e).Errors
        = IF \E i \in 1..Len(errors) : errors[i].Pos = e.Pos
          THEN errors ELSE Append(errors, e)

\* No two diagnostics of the parser have the same position.
NoTwoAtOnePosition ==
    \A i, j \in 1..Len(parseErrors) :
        i # j => parseErrors[i].Pos # parseErrors[j].Pos

\* C18: the diagnostics of the parser never hold two entries with the same
\* position: addError appends a diagnostic only when no earlier entry has
\* its position and keeps the earlier entry; a diagnostic made without a
\* position (the case literal that is not an int) counts as being at (0,0).
C18_OneDiagnosticPerPosition ==
    Parsed =>
        /\ NoTwoAtOnePosition
        /\ \A n \in 0..Len(parseErrors), i \in 1..Len(parseErrors) :
               AddsOnlyNewPositions(SubSeq(parseErrors, 1, n), parseErrors[i])
        /\ \A n \in 0..Len(parseErrors) :
               AddsOnlyNewPositions(SubSeq(parseErrors, 1, n),
                                    NotAnInt(<<"1", ".", "5">>))

\* The text with the case literal 1.5 and a '}' too many was parsed: the
\* diagnostic of the literal, made without a position, is the only one, and
\* the diagnostic of the final EOF check, made at (0,0), was dropped.
C18_Witness ==
    /\ Parsed
    /\ src = NonIntCaseSource
    /\ scanner.copy = "scanner"
    /\ parseErrors = <<NotAnInt(<<"1", ".", "5">>)>>

=============================================================================
